---------------------------- MODULE Spec2Model ----------------------------
(***************************************************************************)
(* Visibility resolver and interaction runtime of psd-run.                 *)
(*                                                                         *)
(* The psd store (src/src/main.tsx), the interaction store                 *)
(* (src/unnamed/part_001) and the chat store (src/src/stores/chat-store.ts)*)
(* are modelled as one state machine.  Strings are sequences of one-       *)
(* character strings, Maps are functions with a finite domain, Sets are    *)
(* sets.  An absent string is NULL, an absent record or string-keyed Map   *)
(* is Nil, an absent array or text is Undefined.  An await is a point      *)
(* where the handler is suspended and other handlers may run.              *)
(***************************************************************************)
EXTENDS Integers, Sequences, FiniteSets, TLC

VARIABLES
    psd,                 \* psd store: Nil or [layers |-> sequence of LayerInfo]
    visibilityOverrides, \* psd store: layerId -> BOOLEAN (sparse)
    effQuery,            \* last getEffectiveVisibility call: Nil or [layerId, result]
    config,              \* interaction store: Nil or an InteractionConfig
    currentScreen,       \* interaction store: NULL or a screen name
    activePopups,        \* interaction store: set of popup names
    selectedHighlights,  \* interaction store: group -> highlight name (sparse)
    dynamicTexts,        \* interaction store: layerId -> text (sparse)
    screenTimerIds,      \* interaction store: handles of the tracked screen timers
    clockTimers,         \* interaction store: layerId -> interval handle (sparse)
    timeouts,            \* browser: pending setTimeout callbacks of screen timers
    intervals,           \* browser: running setInterval callbacks of clocks
    elementScreenMap,    \* interaction store: layerId -> screen name (sparse)
    sliderValues,        \* interaction store: layerId -> number (sparse)
    pendingStartClocks,  \* browser: number of pending setTimeout(startClocks, 100) tasks
    pendingInit,         \* configs whose setConfig is still awaiting its text pushes
    typed,               \* history: digits entered since the displays were seeded
    interactionConfig,   \* chat store: Nil or the active config
    sending,             \* chat store: request in flight
    inflight,            \* chat store: Nil or the pending request [kind, snapshot]
    setConfigCalls,      \* history: the configs the AiChat effect handed to setConfig
    composite,           \* psd store: Nil or the [hidden, shown] lists the image shown was rendered with
    error,               \* psd store: NULL or the message of the error banner
    calls,               \* renderer: the asynchronous calls in flight, in the order issued
    parsedPsd,           \* loadPsd: Nil or the layers its parsePsd resolves with, as they arrive
    loadingGuard,        \* psd store module: the loadingGuard flag
    loading,             \* psd store: loading
    fileName,            \* psd store: NULL or the name of the file of the stored document
    pendingLoad          \* loadPsd: Nil or the call in progress [fileName, stage]

vars == <<psd, visibilityOverrides, effQuery, config, currentScreen, activePopups,
          selectedHighlights, dynamicTexts, screenTimerIds, clockTimers, timeouts,
          intervals, elementScreenMap, sliderValues, pendingStartClocks, pendingInit,
          typed, interactionConfig, sending, inflight, setConfigCalls,
          composite, error, calls, parsedPsd, loadingGuard, loading, fileName,
          pendingLoad>>

psdVars    == <<psd, visibilityOverrides, effQuery>>
engineVars == <<config, currentScreen, activePopups, selectedHighlights, dynamicTexts,
                screenTimerIds, clockTimers, timeouts, intervals, elementScreenMap,
                sliderValues, pendingStartClocks, pendingInit, typed>>
chatVars   == <<interactionConfig, sending, inflight, setConfigCalls>>
renderVars == <<composite, error, calls>>
loadVars   == <<parsedPsd, loadingGuard, loading, fileName, pendingLoad>>

\* null/undefined where a string is expected, and where an object is expected
NULL == "null"

Nil == [nil |-> TRUE]

\* undefined where an array or a text is expected
Undefined == <<"undefined">>

(***************************************************************************)
(* Generic helpers                                                         *)
(***************************************************************************)
Has(m, k) == k \in DOMAIN m

MapSet(m, k, v) == [x \in (DOMAIN m) \cup {k} |-> IF x = k THEN v ELSE m[x]]

MapDelete(m, k) == [x \in (DOMAIN m) \ {k} |-> m[x]]

\* Map.set of every entry of b on a copy of m (later entries win)
MapMerge(m, b) == [x \in (DOMAIN m) \cup (DOMAIN b) |-> IF x \in DOMAIN b THEN b[x] ELSE m[x]]

EmptyMap == [x \in {} |-> TRUE]

Range(q) == {q[i] : i \in DOMAIN q}

\* no digit history
NoTyped == [from |-> EmptyMap, digits |-> <<>>]

Min(S) == CHOOSE x \in S : \A y \in S : x <= y

(***************************************************************************)
(* LayerInfo sequences: pre-order, a group is closed by a groupEnd marker  *)
(* that carries the id of its group.                                       *)
(***************************************************************************)
MaxLayers == 5

LayerKinds == {"layer", "group", "groupEnd"}

RECURSIVE DepthAfter(_, _)
\* nesting depth after the first i entries of a sequence of kinds
DepthAfter(ks, i) ==
    IF i = 0 THEN 0
    ELSE DepthAfter(ks, i - 1)
           + (IF ks[i] = "group" THEN 1 ELSE IF ks[i] = "groupEnd" THEN -1 ELSE 0)

Balanced(ks) ==
    /\ \A i \in 1..Len(ks) : DepthAfter(ks, i) >= 0
    /\ DepthAfter(ks, Len(ks)) = 0

\* index of the groupEnd that closes the group at index g
MatchEnd(ks, g) ==
    Min({j \in (g + 1)..Len(ks) : DepthAfter(ks, j) = DepthAfter(ks, g - 1)})

\* index of the group that the groupEnd at index j closes
MatchStart(ks, j) == CHOOSE g \in 1..(j - 1) : ks[g] = "group" /\ MatchEnd(ks, g) = j

\* the layer list parsePsd emits for a tree shape ks with authored flags vis;
\* the id of the layer at index i is 10 * i
EmitLayers(ks, vis) ==
    [i \in 1..Len(ks) |->
        IF ks[i] = "groupEnd"
        THEN [id |-> 10 * MatchStart(ks, i), type |-> "groupEnd", visible |-> FALSE]
        ELSE [id |-> 10 * i, type |-> ks[i], visible |-> vis[i]]]

KindSeqs == {ks \in UNION {[1..n -> LayerKinds] : n \in 0..MaxLayers} : Balanced(ks)}

\* authored flags: one per layer or group, none for a groupEnd marker
FlagsFor(ks) ==
    {v \in [1..Len(ks) -> BOOLEAN] : \A i \in 1..Len(ks) : ks[i] = "groupEnd" => ~v[i]}

\* the ids a query or an override may name: those of the list and the next, absent, one
LayerIds == {10 * i : i \in 1..(MaxLayers + 1)}

IdsAround(ls) == {10 * i : i \in 1..(Len(ls) + 1)}

\* the sparse override maps over the ids of a layer list
OverrideMaps(ls) ==
    UNION {[D -> BOOLEAN] : D \in SUBSET {ls[i].id : i \in 1..Len(ls)}}

(***************************************************************************)
(* VisibilityResolver                                                      *)
(***************************************************************************)
\* Array.findIndex(l => l.id === layerId): first index, 0 when there is none
FindIndex(ls, layerId) ==
    IF \E i \in 1..Len(ls) : ls[i].id = layerId
    THEN Min({i \in 1..Len(ls) : ls[i].id = layerId})
    ELSE 0

RECURSIVE AncestorScan(_, _, _)
\* the backward loop of getAncestorGroupIds from index i with the counter at depth
AncestorScan(ls, i, depth) ==
    IF i < 1 THEN <<>>
    ELSE IF ls[i].type = "groupEnd" THEN AncestorScan(ls, i - 1, depth + 1)
    ELSE IF ls[i].type = "group"
         THEN IF depth = 0
              THEN <<ls[i].id>> \o AncestorScan(ls, i - 1, 0)
              ELSE AncestorScan(ls, i - 1, depth - 1)
    ELSE AncestorScan(ls, i - 1, depth)

\* mutant: every group before the layer counts as an ancestor (no depth counter)
getAncestorGroupIds_NoDepth(ls, layerIndex) ==
    LET S == {i \in 1..(layerIndex - 1) : ls[i].type = "group"}
        RECURSIVE Down(_)
        Down(i) == IF i < 1 THEN <<>>
                   ELSE IF i \in S THEN <<ls[i].id>> \o Down(i - 1) ELSE Down(i - 1)
    IN  Down(layerIndex - 1)

getAncestorGroupIds(ls, layerIndex) == AncestorScan(ls, layerIndex - 1, 0)

\* overrides.has(id) ? overrides.get(id) : layer.visible
OwnVisible(ls, idx, ov) ==
    IF Has(ov, ls[idx].id) THEN ov[ls[idx].id] ELSE ls[idx].visible

computeEffectiveVisibility(ls, layerId, ov) ==
    LET layerIndex == FindIndex(ls, layerId) IN
    IF layerIndex = 0 THEN FALSE
    ELSE IF ~OwnVisible(ls, layerIndex, ov) THEN FALSE
    ELSE LET ancestorIds == getAncestorGroupIds(ls, layerIndex) IN
         \A k \in 1..Len(ancestorIds) :
            LET a == FindIndex(ls, ancestorIds[k]) IN
            a = 0 \/ OwnVisible(ls, a, ov)


(***************************************************************************)
(* Idle values of the stores a specification does not exercise             *)
(***************************************************************************)
EngineIdle ==
    /\ config = Nil
    /\ currentScreen = NULL
    /\ activePopups = {}
    /\ selectedHighlights = EmptyMap
    /\ dynamicTexts = EmptyMap
    /\ screenTimerIds = {}
    /\ clockTimers = EmptyMap
    /\ timeouts = {}
    /\ intervals = {}
    /\ elementScreenMap = EmptyMap
    /\ sliderValues = EmptyMap
    /\ pendingStartClocks = 0
    /\ pendingInit = <<>>
    /\ typed = NoTyped

ChatIdle ==
    /\ interactionConfig = Nil
    /\ sending = FALSE
    /\ inflight = Nil
    /\ setConfigCalls = {}

\* the renderer's answers are followed by SpecRender only
\* no loadPsd has run
LoadIdle ==
    /\ parsedPsd = Nil
    /\ loadingGuard = FALSE
    /\ loading = FALSE
    /\ fileName = NULL
    /\ pendingLoad = Nil

RenderIdle ==
    /\ composite = Nil
    /\ error = NULL
    /\ calls = <<>>

(***************************************************************************)
(* SpecVis: the resolver on every layer list and override map within the   *)
(* bounds                                                                  *)
(***************************************************************************)
InitVis ==
    /\ \E ks \in KindSeqs : \E vis \in FlagsFor(ks) : psd = [layers |-> EmitLayers(ks, vis)]
    /\ visibilityOverrides \in OverrideMaps(psd.layers)
    /\ effQuery = Nil
    /\ EngineIdle
    /\ ChatIdle
    /\ LoadIdle
    /\ RenderIdle

\* usePsdStore.getEffectiveVisibility(layerId)
GetEffectiveVisibility(layerId) ==
    /\ effQuery' = [layerId |-> layerId,
                    result  |-> IF psd = Nil THEN FALSE
                                ELSE computeEffectiveVisibility(psd.layers, layerId,
                                                                visibilityOverrides)]
    /\ UNCHANGED <<psd, visibilityOverrides>>
    /\ UNCHANGED engineVars
    /\ UNCHANGED <<chatVars, loadVars>> /\ UNCHANGED renderVars

\* one query per drawn input
NextVis ==
    /\ effQuery = Nil
    /\ \E layerId \in IdsAround(psd.layers) : GetEffectiveVisibility(layerId)

SpecVis == InitVis /\ [][NextVis]_vars

(***************************************************************************)
(* C1                                                                      *)
(***************************************************************************)
KindsOf(ls) == [i \in 1..Len(ls) |-> ls[i].type]

\* own visibility of the layer or group with this id: the override when
\* present, otherwise the authored flag
OwnOf(ls, ov, id) ==
    LET i == CHOOSE j \in 1..Len(ls) : ls[j].id = id /\ ls[j].type # "groupEnd"
    IN  IF id \in DOMAIN ov THEN ov[id] ELSE ls[i].visible

\* the groups that enclose index i: opened before i and closed after it
EnclosingGroups(ls, i) ==
    {g \in 1..(i - 1) : ls[g].type = "group" /\ MatchEnd(KindsOf(ls), g) > i}

Exists(ls, id) == \E j \in 1..Len(ls) : ls[j].id = id /\ ls[j].type # "groupEnd"

IndexOf(ls, id) == CHOOSE j \in 1..Len(ls) : ls[j].id = id /\ ls[j].type # "groupEnd"

\* C1: computeEffectiveVisibility is true exactly when the layer exists, its own
\* visibility (override when present, else authored flag) is true and the own
\* visibility of every enclosing group, at every depth, is true; closed sibling
\* subtrees have no influence and an absent id gives false.
C1_EffectiveVisibility ==
    effQuery # Nil =>
        LET ls == psd.layers
            id == effQuery.layerId
        IN  effQuery.result =
              ( /\ Exists(ls, id)
                /\ OwnOf(ls, visibilityOverrides, id)
                /\ \A g \in EnclosingGroups(ls, IndexOf(ls, id)) :
                       OwnOf(ls, visibilityOverrides, ls[g].id) )

\* a leaf two groups deep, after a closed sibling group that is overridden to
\* hidden, is reported visible
C1_Witness ==
    /\ effQuery # Nil
    /\ effQuery.result = TRUE
    /\ Len(psd.layers) = 5
    /\ KindsOf(psd.layers) = <<"group", "group", "groupEnd", "layer", "groupEnd">>
    /\ effQuery.layerId = 40
    /\ Has(visibilityOverrides, 20) /\ ~visibilityOverrides[20]
    /\ Has(visibilityOverrides, 10) /\ visibilityOverrides[10] /\ ~psd.layers[1].visible


(***************************************************************************)
(* InteractionConfig: the document and the configs the runtime is driven   *)
(* with.  An absent string field is NULL, an absent array or text field is *)
(* Undefined, an absent targets map is Nil.  Time is not modelled: a       *)
(* pending timeout may run at any later step, so `delay' is left out.      *)
(***************************************************************************)
Elem ==
    [layerId |-> 0, type |-> NULL, action |-> NULL, target |-> NULL, targets |-> Nil,
     name |-> NULL, value |-> Undefined, showOn |-> Undefined, group |-> NULL,
     triggerOn |-> Undefined]

\* the loaded document: screen folder a (10) holding a display (20), two
\* highlights (30, 40) and a popup folder (50, with a button 60); screen
\* folder b (90) holding a popup (100); a badge (120) and a clock text (130)
EngineKinds ==
    <<"group", "layer", "layer", "layer", "group", "layer", "groupEnd", "groupEnd",
      "group", "layer", "groupEnd", "layer", "layer">>

EngineFlags ==
    <<TRUE, TRUE, FALSE, FALSE, FALSE, TRUE, FALSE, FALSE, FALSE, FALSE, FALSE, TRUE, TRUE>>

EngineLayers == EmitLayers(EngineKinds, EngineFlags)

\* a config with a display: setConfig applies its first batch after the text push
CfgMain ==
    [screens |-> <<"a", "b">>,
     initialScreen |-> "a",
     elements |-> <<
        [Elem EXCEPT !.type = "screen", !.layerId = 10, !.name = "a"],
        [Elem EXCEPT !.type = "screen", !.layerId = 90, !.name = "b"],
        [Elem EXCEPT !.type = "display", !.layerId = 20, !.name = "disp"],
        [Elem EXCEPT !.type = "highlight", !.layerId = 30, !.name = "h1", !.group = "g"],
        [Elem EXCEPT !.type = "highlight", !.layerId = 40, !.name = "h2", !.group = "g"],
        [Elem EXCEPT !.type = "button", !.layerId = 60, !.action = "navigate", !.target = "b"],
        [Elem EXCEPT !.type = "button", !.layerId = 60, !.action = "navigate", !.target = "a"],
        [Elem EXCEPT !.type = "input_digit", !.layerId = 60, !.action = "input_digit",
                     !.value = <<"1">>, !.target = "disp"],
        [Elem EXCEPT !.type = "button", !.layerId = 60, !.action = "clear_input", !.target = "disp"],
        [Elem EXCEPT !.type = "button", !.layerId = 60, !.action = "show_highlight", !.target = "h1"],
        [Elem EXCEPT !.type = "button", !.layerId = 60, !.action = "show_highlight", !.target = "h2"],
        [Elem EXCEPT !.type = "button", !.layerId = 60, !.action = "toggle_highlight", !.target = "h1"],
        [Elem EXCEPT !.type = "timer", !.action = "navigate", !.target = "b", !.triggerOn = <<"a">>],
        [Elem EXCEPT !.type = "timer", !.action = "navigate", !.target = "a", !.triggerOn = <<"a", "b">>]
     >>]

\* a config without displays: setConfig applies its first batch at once
CfgPlain ==
    [screens |-> <<"a", "b">>,
     initialScreen |-> "b",
     elements |-> <<
        [Elem EXCEPT !.type = "screen", !.layerId = 10, !.name = "a"],
        [Elem EXCEPT !.type = "screen", !.layerId = 90, !.name = "b"],
        [Elem EXCEPT !.type = "popup", !.layerId = 50, !.name = "p1"],
        [Elem EXCEPT !.type = "popup", !.layerId = 100, !.name = "p2"],
        [Elem EXCEPT !.type = "button", !.layerId = 60, !.action = "navigate", !.target = "a"],
        [Elem EXCEPT !.type = "button", !.layerId = 60, !.action = "navigate_conditional",
                     !.targets = [x \in {"a"} |-> "b"]],
        [Elem EXCEPT !.type = "button", !.layerId = 60, !.action = "show_popup", !.target = "p1"],
        [Elem EXCEPT !.type = "button", !.layerId = 60, !.action = "show_popup", !.target = "p2"],
        [Elem EXCEPT !.type = "button", !.layerId = 60, !.action = "hide_popup"],
        [Elem EXCEPT !.type = "button", !.layerId = 60, !.action = "navigate_from_popup", !.target = "a"],
        [Elem EXCEPT !.type = "timer", !.action = "navigate", !.target = "b", !.triggerOn = <<"a">>],
        [Elem EXCEPT !.type = "clock", !.layerId = 130],
        [Elem EXCEPT !.type = "slider", !.layerId = 60],
        [Elem EXCEPT !.type = "conditional", !.layerId = 120, !.showOn = <<"b">>]
     >>]

EngineConfigs == {CfgMain, CfgPlain}

IsDisplay(e) == e.type = "display" \/ e.type = "dynamic_text"

\* config.elements.find(e => e.type === type && e.name === name): the first
\* match, Nil when there is none
FindByTypeName(cfg, type, name) ==
    LET S == {i \in 1..Len(cfg.elements) :
                 cfg.elements[i].type = type /\ cfg.elements[i].name = name}
    IN  IF S = {} THEN Nil ELSE cfg.elements[Min(S)]

(***************************************************************************)
(* Interaction store helpers                                               *)
(***************************************************************************)
RECURSIVE ScreenScan(_, _, _, _)
\* the backward loop of findAncestorScreen: 0 when no screen folder encloses
RECURSIVE ScreenScan_NoDepth(_, _, _, _)
\* a mutant that takes the first screen folder met, closed or not
ScreenScan_NoDepth(ls, i, depth, screenLayerIds) ==
    IF i < 1 THEN 0
    ELSE IF ls[i].type = "group" /\ ls[i].id \in screenLayerIds THEN ls[i].id
    ELSE ScreenScan_NoDepth(ls, i - 1, depth, screenLayerIds)

ScreenScan(ls, i, depth, screenLayerIds) ==
    IF i < 1 THEN 0
    ELSE IF ls[i].type = "groupEnd" THEN ScreenScan(ls, i - 1, depth + 1, screenLayerIds)
    ELSE IF ls[i].type = "group"
         THEN IF depth = 0
              THEN IF ls[i].id \in screenLayerIds THEN ls[i].id
                   ELSE ScreenScan(ls, i - 1, 0, screenLayerIds)
              ELSE ScreenScan(ls, i - 1, depth - 1, screenLayerIds)
    ELSE ScreenScan(ls, i - 1, depth, screenLayerIds)

findAncestorScreen(ls, layerId, screenLayerIds) ==
    LET layerIndex == FindIndex(ls, layerId) IN
    IF layerIndex = 0 THEN 0 ELSE ScreenScan(ls, layerIndex - 1, 0, screenLayerIds)

LayerExists(layerId) == psd # Nil /\ FindIndex(psd.layers, layerId) # 0

\* usePsdStore.setMultipleVisibility: the overrides after the batch is merged
setMultipleVisibility(batch) ==
    IF psd = Nil THEN visibilityOverrides ELSE MapMerge(visibilityOverrides, batch)

\* does pass k of applyScreenVisibility write an override for element e
BatchApplies(k, e) ==
    CASE k = 1 -> e.type = "screen" /\ LayerExists(e.layerId)
      [] k = 2 -> e.showOn # Undefined /\ LayerExists(e.layerId)
      [] k = 3 -> e.type = "highlight"
      [] k = 4 -> e.type = "popup"

\* pass 1 as a mutant that shows every screen folder
BatchValue_AllScreens(k, e, screenName, popups, sel) ==
    CASE k = 1 -> TRUE
      [] k = 2 -> screenName \in Range(e.showOn)
      [] k = 3 -> e.name = (IF e.group # NULL /\ Has(sel, e.group) THEN sel[e.group] ELSE NULL)
      [] k = 4 -> e.name \in popups

\* the override pass k of applyScreenVisibility writes for element e
BatchValue(k, e, screenName, popups, sel) ==
    CASE k = 1 -> e.name = screenName
      [] k = 2 -> screenName \in Range(e.showOn)
      [] k = 3 -> LET selectedName == IF e.group # NULL /\ Has(sel, e.group)
                                      THEN sel[e.group] ELSE NULL
                  IN  e.name = selectedName
      [] k = 4 -> e.name \in popups

\* the overrides.set calls of pass k of applyScreenVisibility: the Map keeps
\* the last write to a layer id
PassBatch(cfg, k, screenName, popups, sel) ==
    LET W == {i \in 1..Len(cfg.elements) : BatchApplies(k, cfg.elements[i])}
    IN  [id \in {cfg.elements[i].layerId : i \in W} |->
            BatchValue(k,
                       cfg.elements[CHOOSE i \in W :
                           /\ cfg.elements[i].layerId = id
                           /\ \A j \in W : cfg.elements[j].layerId = id => j <= i],
                       screenName, popups, sel)]

\* the batch applyScreenVisibility builds: screens, showOn, highlights, popups
ScreenBatch(cfg, screenName, popups, sel) ==
    MapMerge(MapMerge(MapMerge(PassBatch(cfg, 1, screenName, popups, sel),
                               PassBatch(cfg, 2, screenName, popups, sel)),
                      PassBatch(cfg, 3, screenName, popups, sel)),
             PassBatch(cfg, 4, screenName, popups, sel))

\* the overrides after applyScreenVisibility(cfg, screenName, popups, sel)
applyScreenVisibility(cfg, screenName, popups, sel) ==
    IF psd = Nil THEN visibilityOverrides
    ELSE setMultipleVisibility(ScreenBatch(cfg, screenName, popups, sel))

\* window.setTimeout / setInterval handles: the least handle not in use
RECURSIVE FreshHandles(_, _)
FreshHandles(used, k) ==
    IF k = 0 THEN <<>>
    ELSE LET h == Min({x \in 1..(Cardinality(used) + 1) : x \notin used})
         IN  <<h>> \o FreshHandles(used \cup {h}, k - 1)

IndexSeq(n) == [i \in 1..n |-> i]

\* a mutant that arms every timer element, whatever its triggerOn lists
startScreenTimers_All(cfg, screenName, used) ==
    LET Armed(i) == cfg.elements[i].type = "timer"
        idx == SelectSeq(IndexSeq(Len(cfg.elements)), Armed)
        hs  == FreshHandles(used, Len(idx))
    IN  [j \in 1..Len(idx) |->
            [id |-> hs[j], action |-> cfg.elements[idx[j]].action,
             target |-> cfg.elements[idx[j]].target, armedOn |-> screenName,
             stale |-> FALSE]]

\* the timers startScreenTimers arms for screenName, given the handles in use
startScreenTimers(cfg, screenName, used) ==
    LET Armed(i) == /\ cfg.elements[i].type = "timer"
                    /\ cfg.elements[i].triggerOn # Undefined
                    /\ screenName \in Range(cfg.elements[i].triggerOn)
        idx == SelectSeq(IndexSeq(Len(cfg.elements)), Armed)
        hs  == FreshHandles(used, Len(idx))
    IN  [j \in 1..Len(idx) |->
            [id |-> hs[j], action |-> cfg.elements[idx[j]].action,
             target |-> cfg.elements[idx[j]].target, armedOn |-> screenName,
             stale |-> FALSE]]

\* a mutant that cancels nothing
stopScreenTimers_None(tos, ids) == tos

\* the pending timeouts left after stopScreenTimers(ids)
stopScreenTimers(tos, ids) == {t \in tos : t.id \notin ids}

\* history: a timeout that survives the leaving of its screen is stale
MarkStale(tos) == {[t EXCEPT !.stale = TRUE] : t \in tos}

HandlesInUse(tos, ivs, ct) ==
    {t.id : t \in tos} \cup {v.id : v \in ivs} \cup Range(ct)


(***************************************************************************)
(* Interaction store operations.  The bodies leave `typed' and the chat    *)
(* store to the specification that uses them.                              *)
(***************************************************************************)
MaxPendingInit == 1

MaxPendingClocks == 2

MaxIntervals == 2

\* a mutant that keeps the popups open across the navigation
DoNavigate_KeepPopups(screenName, tos) ==
    LET kept == stopScreenTimers(tos, screenTimerIds)
        new  == startScreenTimers(config, screenName,
                                  HandlesInUse(kept, intervals, clockTimers))
    IN  /\ config # Nil
        /\ currentScreen' = screenName
        /\ visibilityOverrides' =
               applyScreenVisibility(config, screenName, activePopups, selectedHighlights)
        /\ screenTimerIds' = {new[j].id : j \in DOMAIN new}
        /\ timeouts' = MarkStale(kept) \cup Range(new)
        /\ UNCHANGED <<psd, effQuery, config, activePopups, selectedHighlights,
                       dynamicTexts, clockTimers, intervals, elementScreenMap,
                       sliderValues, pendingStartClocks, pendingInit>>

\* a mutant that drops the highlight selections on navigation
DoNavigate_DropSelection(screenName, tos) ==
    LET kept == stopScreenTimers(tos, screenTimerIds)
        new  == startScreenTimers(config, screenName,
                                  HandlesInUse(kept, intervals, clockTimers))
    IN  /\ config # Nil
        /\ currentScreen' = screenName
        /\ activePopups' = {}
        /\ selectedHighlights' = EmptyMap
        /\ visibilityOverrides' = applyScreenVisibility(config, screenName, {}, EmptyMap)
        /\ screenTimerIds' = {new[j].id : j \in DOMAIN new}
        /\ timeouts' = MarkStale(kept) \cup Range(new)
        /\ UNCHANGED <<psd, effQuery, config, dynamicTexts, clockTimers, intervals,
                       elementScreenMap, sliderValues, pendingStartClocks, pendingInit>>

\* navigateToScreen(screenName), run when the pending timeouts are tos
DoNavigate(screenName, tos) ==
    IF config = Nil
    THEN /\ timeouts' = tos
         /\ UNCHANGED <<psd, visibilityOverrides, effQuery, config, currentScreen,
                        activePopups, selectedHighlights, dynamicTexts, screenTimerIds,
                        clockTimers, intervals, elementScreenMap, sliderValues,
                        pendingStartClocks, pendingInit>>
    ELSE LET kept == stopScreenTimers(tos, screenTimerIds)
             new  == startScreenTimers(config, screenName,
                                       HandlesInUse(kept, intervals, clockTimers))
         IN  /\ currentScreen' = screenName
             /\ activePopups' = {}
             /\ visibilityOverrides' =
                    applyScreenVisibility(config, screenName, {}, selectedHighlights)
             /\ screenTimerIds' = {new[j].id : j \in DOMAIN new}
             /\ timeouts' = MarkStale(kept) \cup Range(new)
             /\ UNCHANGED <<psd, effQuery, config, selectedHighlights, dynamicTexts,
                            clockTimers, intervals, elementScreenMap, sliderValues,
                            pendingStartClocks, pendingInit>>

NavigateToScreenBody(screenName) == DoNavigate(screenName, timeouts)

\* a mutant whose callback never navigates
TimerFireBody_Ignore(t) ==
    /\ t \in timeouts
    /\ timeouts' = timeouts \ {t}
    /\ UNCHANGED <<psd, visibilityOverrides, effQuery, config, currentScreen,
                   activePopups, selectedHighlights, dynamicTexts, screenTimerIds,
                   clockTimers, intervals, elementScreenMap, sliderValues,
                   pendingStartClocks, pendingInit>>

\* the callback of a screen timer runs
TimerFireBody(t) ==
    /\ t \in timeouts
    /\ IF t.action = "navigate" /\ t.target # NULL
       THEN DoNavigate(t.target, timeouts \ {t})
       ELSE /\ timeouts' = timeouts \ {t}
            /\ UNCHANGED <<psd, visibilityOverrides, effQuery, config, currentScreen,
                           activePopups, selectedHighlights, dynamicTexts, screenTimerIds,
                           clockTimers, intervals, elementScreenMap, sliderValues,
                           pendingStartClocks, pendingInit>>

RECURSIVE InitialTexts(_, _, _)
\* setConfig: the default text of every display, in element order
InitialTexts(cfg, i, acc) ==
    IF i > Len(cfg.elements) THEN acc
    ELSE LET e == cfg.elements[i] IN
         InitialTexts(cfg, i + 1,
                      IF IsDisplay(e)
                      THEN MapSet(acc, e.layerId,
                                  IF e.value = Undefined THEN <<"-", "-">> ELSE e.value)
                      ELSE acc)

\* new Map(screenElements.map(e => [e.layerId, e.name])).get(id): the last entry wins
ScreenNameById(cfg, id) ==
    LET S == {i \in 1..Len(cfg.elements) :
                 cfg.elements[i].type = "screen" /\ cfg.elements[i].layerId = id}
    IN  cfg.elements[CHOOSE i \in S : \A j \in S : j <= i].name

RECURSIVE BuildScreenMap(_, _, _, _)
\* setConfig: layerId of every non-screen element -> name of its screen folder
BuildScreenMap(cfg, ls, i, acc) ==
    IF i > Len(cfg.elements) THEN acc
    ELSE LET e == cfg.elements[i]
             screenLayerIds == {cfg.elements[j].layerId :
                                   j \in {k \in 1..Len(cfg.elements) :
                                             cfg.elements[k].type = "screen"}}
             screenId == findAncestorScreen(ls, e.layerId, screenLayerIds)
         IN  BuildScreenMap(cfg, ls, i + 1,
                            IF e.type # "screen" /\ screenId # 0
                            THEN MapSet(acc, e.layerId, ScreenNameById(cfg, screenId))
                            ELSE acc)

\* the running intervals left after stopClocks
stopClocks(ivs, ct) == {v \in ivs : v.id \notin Range(ct)}

SetConfigBody(c) ==
    LET ivs1 == stopClocks(intervals, clockTimers)
        kept == stopScreenTimers(timeouts, screenTimerIds)
        layers == IF psd = Nil THEN <<>> ELSE psd.layers
        hasDisplay == \E i \in 1..Len(c.elements) : IsDisplay(c.elements[i])
        hasClock == \E i \in 1..Len(c.elements) : c.elements[i].type = "clock"
        new == startScreenTimers(c, c.initialScreen, HandlesInUse(kept, ivs1, EmptyMap))
    IN  /\ hasDisplay => Len(pendingInit) < MaxPendingInit
        /\ hasClock => pendingStartClocks < MaxPendingClocks
        /\ intervals' = ivs1
        /\ clockTimers' = EmptyMap
        /\ config' = c
        /\ currentScreen' = c.initialScreen
        /\ elementScreenMap' = BuildScreenMap(c, layers, 1, EmptyMap)
        /\ sliderValues' = EmptyMap
        /\ activePopups' = {}
        /\ selectedHighlights' = EmptyMap
        /\ dynamicTexts' = InitialTexts(c, 1, EmptyMap)
        \* the async block suspends at its first text push; without a display
        \* it applies the first batch before setConfig returns
        /\ IF hasDisplay
           THEN /\ pendingInit' = Append(pendingInit, c)
                /\ UNCHANGED visibilityOverrides
           ELSE /\ UNCHANGED pendingInit
                /\ visibilityOverrides' =
                       applyScreenVisibility(c, c.initialScreen, {}, EmptyMap)
        /\ pendingStartClocks' = IF hasClock THEN pendingStartClocks + 1
                                 ELSE pendingStartClocks
        /\ screenTimerIds' = {new[j].id : j \in DOMAIN new}
        /\ timeouts' = MarkStale(kept) \cup Range(new)
        /\ UNCHANGED <<psd, effQuery>>

\* the text pushes of a setConfig are done: its first batch is applied
InitBatchDoneBody(k) ==
    /\ k \in 1..Len(pendingInit)
    /\ LET c == pendingInit[k] IN
       visibilityOverrides' = applyScreenVisibility(c, c.initialScreen, {}, EmptyMap)
    /\ pendingInit' = [j \in 1..(Len(pendingInit) - 1) |->
                          IF j < k THEN pendingInit[j] ELSE pendingInit[j + 1]]
    /\ UNCHANGED <<psd, effQuery, config, currentScreen, activePopups,
                   selectedHighlights, dynamicTexts, screenTimerIds, clockTimers,
                   timeouts, intervals, elementScreenMap, sliderValues,
                   pendingStartClocks>>

RECURSIVE ClockMap(_, _, _, _)
\* startClocks: layerId -> handle of the interval started for it, in element order
ClockMap(cfg, idx, hs, j) ==
    IF j > Len(idx) THEN EmptyMap
    ELSE MapMerge([x \in {cfg.elements[idx[j]].layerId} |-> hs[j]],
                  ClockMap(cfg, idx, hs, j + 1))

\* startClocks: what it does to clockTimers and intervals
DoStartClocks ==
    IF config = Nil
    THEN UNCHANGED <<clockTimers, intervals>>
    ELSE LET IsClock(i) == config.elements[i].type = "clock"
             idx == SelectSeq(IndexSeq(Len(config.elements)), IsClock)
             hs  == FreshHandles(HandlesInUse(timeouts, intervals, clockTimers)
                                    \cup screenTimerIds, Len(idx))
         IN  /\ clockTimers' = ClockMap(config, idx, hs, 1)
             /\ intervals' = intervals \cup
                    {[id |-> hs[j], layerId |-> config.elements[idx[j]].layerId] :
                        j \in 1..Len(idx)}

StartClocksBody ==
    /\ Cardinality(intervals) < MaxIntervals
    /\ DoStartClocks
    /\ UNCHANGED <<psd, visibilityOverrides, effQuery, config, currentScreen,
                   activePopups, selectedHighlights, dynamicTexts, screenTimerIds,
                   timeouts, elementScreenMap, sliderValues, pendingStartClocks,
                   pendingInit>>

\* the setTimeout(() => get().startClocks(), 100) of a setConfig runs
DeferredStartClocksBody ==
    /\ pendingStartClocks > 0
    /\ Cardinality(intervals) < MaxIntervals
    /\ pendingStartClocks' = pendingStartClocks - 1
    /\ DoStartClocks
    /\ UNCHANGED <<psd, visibilityOverrides, effQuery, config, currentScreen,
                   activePopups, selectedHighlights, dynamicTexts, screenTimerIds,
                   timeouts, elementScreenMap, sliderValues, pendingInit>>

StopClocksBody ==
    /\ intervals' = stopClocks(intervals, clockTimers)
    /\ clockTimers' = EmptyMap
    /\ UNCHANGED <<psd, visibilityOverrides, effQuery, config, currentScreen,
                   activePopups, selectedHighlights, dynamicTexts, screenTimerIds,
                   timeouts, elementScreenMap, sliderValues, pendingStartClocks,
                   pendingInit>>

\* the formatted time a clock callback writes (the time itself is not modelled)
ClockText == <<"t">>

\* the callback of a running clock interval runs
ClockTickBody(v) ==
    /\ v \in intervals
    /\ dynamicTexts' = MapSet(dynamicTexts, v.layerId, ClockText)
    /\ UNCHANGED <<psd, visibilityOverrides, effQuery, config, currentScreen,
                   activePopups, selectedHighlights, screenTimerIds, clockTimers,
                   timeouts, intervals, elementScreenMap, sliderValues,
                   pendingStartClocks, pendingInit>>

ClearBody ==
    /\ intervals' = stopClocks(intervals, clockTimers)
    /\ timeouts' = MarkStale(stopScreenTimers(timeouts, screenTimerIds))
    /\ config' = Nil
    /\ currentScreen' = NULL
    /\ elementScreenMap' = EmptyMap
    /\ sliderValues' = EmptyMap
    /\ clockTimers' = EmptyMap
    /\ screenTimerIds' = {}
    /\ activePopups' = {}
    /\ selectedHighlights' = EmptyMap
    /\ dynamicTexts' = EmptyMap
    /\ UNCHANGED <<psd, visibilityOverrides, effQuery, pendingStartClocks, pendingInit>>

\* a mutant that starts from an empty map instead of a copy
SetSliderValueBody_Fresh(layerId, value) ==
    /\ sliderValues' = MapSet(EmptyMap, layerId, value)
    /\ UNCHANGED <<psd, visibilityOverrides, effQuery, config, currentScreen,
                   activePopups, selectedHighlights, dynamicTexts, screenTimerIds,
                   clockTimers, timeouts, intervals, elementScreenMap,
                   pendingStartClocks, pendingInit>>

SetSliderValueBody(layerId, value) ==
    /\ sliderValues' = MapSet(sliderValues, layerId, value)
    /\ UNCHANGED <<psd, visibilityOverrides, effQuery, config, currentScreen,
                   activePopups, selectedHighlights, dynamicTexts, screenTimerIds,
                   clockTimers, timeouts, intervals, elementScreenMap,
                   pendingStartClocks, pendingInit>>


(***************************************************************************)
(* executeAction.  The bodies assign the interaction store and the         *)
(* overrides; the calls they issue to the renderer are added by SpecRender.*)
(***************************************************************************)
\* every store field an interaction operation can assign
storeVars == <<psd, visibilityOverrides, effQuery, config, currentScreen, activePopups,
               selectedHighlights, dynamicTexts, screenTimerIds, clockTimers, timeouts,
               intervals, elementScreenMap, sliderValues, pendingStartClocks, pendingInit>>

\* (element.target || '').split(',').map(s => s.trim()).filter(Boolean), on the
\* target strings the configs use
TargetNames(target) ==
    CASE target = "disp"        -> <<"disp">>
      [] target = "d1,d2"       -> <<"d1", "d2">>
      [] target = "d1, d2 ,d3,"  -> <<"d1", "d2", "d3">>
      [] target = "disp,nope"   -> <<"disp", "nope">>
      [] OTHER                  -> IF target = NULL THEN <<>> ELSE <<target>>

\* the displays named by names, in order, names without a display dropped
DisplayElems(cfg, names) ==
    LET Found(j) == \E i \in 1..Len(cfg.elements) :
                        IsDisplay(cfg.elements[i]) /\ cfg.elements[i].name = names[j]
        First(j) == cfg.elements[Min({i \in 1..Len(cfg.elements) :
                        IsDisplay(cfg.elements[i]) /\ cfg.elements[i].name = names[j]})]
        idx == SelectSeq(IndexSeq(Len(names)), Found)
    IN  [j \in 1..Len(idx) |-> First(idx[j])]

\* texts.get(layerId) || dflt: an absent or empty text gives dflt
TextOr(texts, layerId, dflt) ==
    IF Has(texts, layerId) /\ texts[layerId] # <<>> THEN texts[layerId] ELSE dflt

\* text.charAt(k - 1): the empty text past the end
CharAt(text, k) == IF k <= Len(text) THEN <<text[k]>> ELSE <<>>

emptyValue == <<"-">>

\* single display: a mutant that shifts a full buffer instead of keeping it
SingleNext_Wrap(current, digit) ==
    LET d1 == CharAt(current, 1)
        d2 == CharAt(current, 2)
    IN  IF d1 = emptyValue /\ d2 = emptyValue THEN emptyValue \o digit
        ELSE d2 \o digit

\* single display: the next text of the two-character buffer
SingleNext(current, digit) ==
    LET d1 == CharAt(current, 1)
        d2 == CharAt(current, 2)
    IN  IF d1 = emptyValue /\ d2 = emptyValue THEN emptyValue \o digit
        ELSE IF d1 = emptyValue /\ d2 # emptyValue THEN d2 \o digit
        ELSE current

\* several displays: a mutant that writes the new digit without shifting
MultiShift_NoShift(texts, ds, digit, i) == MapSet(texts, ds[Len(ds)].layerId, digit)

RECURSIVE MultiWrite(_, _, _, _, _)
\* several displays: the setDynamicText calls from position i on
MultiWrite(texts, ds, currentValues, digit, i) ==
    IF i >= Len(ds) THEN MapSet(texts, ds[Len(ds)].layerId, digit)
    ELSE MultiWrite(MapSet(texts, ds[i].layerId, currentValues[i + 1]),
                    ds, currentValues, digit, i + 1)

\* several displays: the texts after the shift, read from the captured texts
MultiShift(texts, ds, digit, i) ==
    MultiWrite(texts, ds, [j \in 1..Len(ds) |-> TextOr(texts, ds[j].layerId, emptyValue)],
               digit, i)

\* a mutant that computes the next text from the text setConfig installed, not
\* from the text the last action left
InputDigitTexts_Stale(e) ==
    IF config = Nil THEN dynamicTexts
    ELSE LET displayElems == DisplayElems(config, TargetNames(e.target))
         IN  IF Len(displayElems) # 1 THEN dynamicTexts
             ELSE MapSet(dynamicTexts, displayElems[1].layerId,
                         SingleNext(TextOr(typed.from, displayElems[1].layerId,
                                           <<"-", "-">>), e.value))

\* the dynamicTexts after input_digit of element e (unchanged when it returns early)
InputDigitTexts(e) ==
    IF config = Nil THEN dynamicTexts
    ELSE LET displayElems == DisplayElems(config, TargetNames(e.target))
             digit == e.value
         IN  IF Len(displayElems) = 0 THEN dynamicTexts
             ELSE IF Len(displayElems) = 1
             THEN MapSet(dynamicTexts, displayElems[1].layerId,
                         SingleNext(TextOr(dynamicTexts, displayElems[1].layerId,
                                           <<"-", "-">>), digit))
             ELSE IF \A j \in 1..Len(displayElems) :
                        TextOr(dynamicTexts, displayElems[j].layerId, emptyValue)
                            # emptyValue
             THEN dynamicTexts
             ELSE MultiShift(dynamicTexts, displayElems, digit, 1)

ExecInputDigit(e) ==
    /\ dynamicTexts' = InputDigitTexts(e)
    /\ UNCHANGED <<psd, visibilityOverrides, effQuery, config, currentScreen,
                   activePopups, selectedHighlights, screenTimerIds, clockTimers,
                   timeouts, intervals, elementScreenMap, sliderValues,
                   pendingStartClocks, pendingInit>>

\* a mutant that takes the first entry of targets whatever the current screen is
ExecNavigateConditional_AnyEntry(e) ==
    IF currentScreen = NULL THEN UNCHANGED storeVars
    ELSE DoNavigate(e.targets[CHOOSE x \in DOMAIN e.targets : TRUE], timeouts)

ExecNavigateConditional(e) ==
    IF currentScreen = NULL THEN UNCHANGED storeVars
    ELSE IF Has(e.targets, currentScreen)
         THEN DoNavigate(e.targets[currentScreen], timeouts)
         ELSE UNCHANGED storeVars

\* a mutant whose batch covers the highlights of every group
GroupOverrides_AllGroups(cfg, group, target, isToggleOff, i, acc) ==
    LET H == {j \in 1..Len(cfg.elements) : cfg.elements[j].type = "highlight"}
    IN  [id \in {cfg.elements[j].layerId : j \in H} |->
            IF isToggleOff THEN FALSE
            ELSE \E j \in H : cfg.elements[j].layerId = id /\ cfg.elements[j].name = target]

RECURSIVE GroupOverrides(_, _, _, _, _, _)
\* show/toggle_highlight: the batch over the highlights of the group
GroupOverrides(cfg, group, target, isToggleOff, i, acc) ==
    IF i > Len(cfg.elements) THEN acc
    ELSE LET h == cfg.elements[i] IN
         GroupOverrides(cfg, group, target, isToggleOff, i + 1,
                        IF h.type = "highlight" /\ h.group = group
                        THEN MapSet(acc, h.layerId,
                                    IF isToggleOff THEN FALSE ELSE h.name = target)
                        ELSE acc)

\* a mutant whose toggle-off drops the selection and leaves the highlight shown
ExecHighlight_KeepsShown(e) ==
    LET targetElem == IF config = Nil THEN Nil
                      ELSE FindByTypeName(config, "highlight", e.target)
    IN  IF targetElem = Nil THEN UNCHANGED storeVars
        ELSE IF targetElem.group = NULL THEN UNCHANGED storeVars
        ELSE LET group == targetElem.group
                 isToggleOff == /\ e.action = "toggle_highlight"
                                /\ Has(selectedHighlights, group)
                                /\ selectedHighlights[group] = e.target
             IN  /\ selectedHighlights' =
                        IF isToggleOff THEN MapDelete(selectedHighlights, group)
                        ELSE MapSet(selectedHighlights, group, e.target)
                 /\ visibilityOverrides' =
                        setMultipleVisibility(GroupOverrides(config, group, e.target,
                                                             FALSE, 1, EmptyMap))
                 /\ UNCHANGED <<psd, effQuery, config, currentScreen, activePopups,
                                dynamicTexts, screenTimerIds, clockTimers, timeouts,
                                intervals, elementScreenMap, sliderValues,
                                pendingStartClocks, pendingInit>>

ExecHighlight(e) ==
    LET targetElem == IF config = Nil THEN Nil
                      ELSE FindByTypeName(config, "highlight", e.target)
    IN  IF targetElem = Nil THEN UNCHANGED storeVars
        ELSE IF targetElem.group = NULL THEN UNCHANGED storeVars
        ELSE LET group == targetElem.group
                 currentSelected == IF Has(selectedHighlights, group)
                                    THEN selectedHighlights[group] ELSE NULL
                 isToggleOff == e.action = "toggle_highlight" /\ currentSelected = e.target
                 overrides == GroupOverrides(config, group, e.target, isToggleOff, 1, EmptyMap)
             IN  /\ selectedHighlights' =
                        IF isToggleOff THEN MapDelete(selectedHighlights, group)
                        ELSE MapSet(selectedHighlights, group, e.target)
                 /\ visibilityOverrides' = setMultipleVisibility(overrides)
                 /\ UNCHANGED <<psd, effQuery, config, currentScreen, activePopups,
                                dynamicTexts, screenTimerIds, clockTimers, timeouts,
                                intervals, elementScreenMap, sliderValues,
                                pendingStartClocks, pendingInit>>

\* a mutant that opens the popup in place of the ones already open
ExecShowPopup_Exclusive(e) ==
    LET popupElem == IF config = Nil THEN Nil
                     ELSE FindByTypeName(config, "popup", e.target)
    IN  IF popupElem = Nil THEN UNCHANGED storeVars
        ELSE /\ activePopups' = {e.target}
             /\ visibilityOverrides' =
                    applyScreenVisibility(config, currentScreen, {e.target},
                                          selectedHighlights)
             /\ UNCHANGED <<psd, effQuery, config, currentScreen, selectedHighlights,
                            dynamicTexts, screenTimerIds, clockTimers, timeouts,
                            intervals, elementScreenMap, sliderValues,
                            pendingStartClocks, pendingInit>>

\* a mutant that records the popup without looking at the config
ExecShowPopup_NoConfigCheck(e) ==
    LET popupElem == IF config = Nil THEN Nil
                     ELSE FindByTypeName(config, "popup", e.target)
    IN  /\ activePopups' = activePopups \cup {e.target}
        /\ visibilityOverrides' =
               IF popupElem = Nil THEN visibilityOverrides
               ELSE setMultipleVisibility([x \in {popupElem.layerId} |-> TRUE])
        /\ UNCHANGED <<psd, effQuery, config, currentScreen, selectedHighlights,
                       dynamicTexts, screenTimerIds, clockTimers, timeouts,
                       intervals, elementScreenMap, sliderValues,
                       pendingStartClocks, pendingInit>>

ExecShowPopup(e) ==
    LET popupElem == IF config = Nil THEN Nil
                     ELSE FindByTypeName(config, "popup", e.target)
    IN  IF popupElem = Nil THEN UNCHANGED storeVars
        ELSE /\ activePopups' = activePopups \cup {e.target}
             /\ visibilityOverrides' =
                    setMultipleVisibility([x \in {popupElem.layerId} |-> TRUE])
             /\ UNCHANGED <<psd, effQuery, config, currentScreen, selectedHighlights,
                            dynamicTexts, screenTimerIds, clockTimers, timeouts,
                            intervals, elementScreenMap, sliderValues,
                            pendingStartClocks, pendingInit>>

\* a mutant that, without a target, empties activePopups and redraws nothing
ExecHidePopup_NoBatch(e) ==
    IF e.target # NULL /\ config # Nil
    THEN DoNavigate(e.target, timeouts)
    ELSE /\ activePopups' = {}
         /\ UNCHANGED <<psd, visibilityOverrides, effQuery, config, currentScreen,
                        selectedHighlights, dynamicTexts, screenTimerIds, clockTimers,
                        timeouts, intervals, elementScreenMap, sliderValues,
                        pendingStartClocks, pendingInit>>

\* hide_popup / navigate_from_popup
ExecHidePopup(e) ==
    IF e.target # NULL /\ config # Nil
    THEN DoNavigate(e.target, timeouts)
    ELSE /\ activePopups' = {}
         /\ visibilityOverrides' =
                IF e.target = NULL /\ config # Nil /\ currentScreen # NULL
                THEN applyScreenVisibility(config, currentScreen, {}, selectedHighlights)
                ELSE visibilityOverrides
         /\ UNCHANGED <<psd, effQuery, config, currentScreen, selectedHighlights,
                        dynamicTexts, screenTimerIds, clockTimers, timeouts, intervals,
                        elementScreenMap, sliderValues, pendingStartClocks, pendingInit>>

\* a mutant that clears a display without value to the text setConfig gives it
ClearTexts_InitialDefault(texts, ds, i) ==
    [l \in DOMAIN texts \cup {ds[j].layerId : j \in i..Len(ds)} |->
        IF \E j \in i..Len(ds) : ds[j].layerId = l
        THEN LET d == ds[CHOOSE j \in i..Len(ds) : ds[j].layerId = l]
             IN  IF d.value = Undefined THEN <<"-", "-">> ELSE d.value
        ELSE texts[l]]

RECURSIVE ClearTexts(_, _, _)
\* clear_input: the setDynamicText calls from position i on
ClearTexts(texts, ds, i) ==
    IF i > Len(ds) THEN texts
    ELSE ClearTexts(MapSet(texts, ds[i].layerId,
                           IF ds[i].value = Undefined THEN emptyValue ELSE ds[i].value),
                    ds, i + 1)

ExecClearInput(e) ==
    /\ dynamicTexts' =
           IF config = Nil THEN dynamicTexts
           ELSE ClearTexts(dynamicTexts, DisplayElems(config, TargetNames(e.target)), 1)
    /\ UNCHANGED <<psd, visibilityOverrides, effQuery, config, currentScreen,
                   activePopups, selectedHighlights, screenTimerIds, clockTimers,
                   timeouts, intervals, elementScreenMap, sliderValues,
                   pendingStartClocks, pendingInit>>

\* executeAction(element): the first branch whose test passes runs
ExecuteActionBody(e) ==
    IF e.action = "navigate" /\ e.target # NULL
    THEN DoNavigate(e.target, timeouts)
    ELSE IF e.action = "navigate_conditional" /\ e.targets # Nil
    THEN ExecNavigateConditional(e)
    ELSE IF e.action = "input_digit" /\ e.value # Undefined
    THEN ExecInputDigit(e)
    ELSE IF e.action \in {"show_highlight", "toggle_highlight"} /\ e.target # NULL
    THEN ExecHighlight(e)
    ELSE IF e.action = "show_popup" /\ e.target # NULL
    THEN ExecShowPopup(e)
    ELSE IF e.action \in {"hide_popup", "navigate_from_popup"}
    THEN ExecHidePopup(e)
    ELSE IF e.action = "clear_input"
    THEN ExecClearInput(e)
    ELSE UNCHANGED storeVars


(***************************************************************************)
(* The interaction runtime: a loaded document driven through the store's   *)
(* operations, its timers and its deferred work.                           *)
(***************************************************************************)
ScreenNames == {"a", "b"}

SliderValues == {50}

\* the elements the preview overlays and hands to executeAction and to the
\* slider: those of the loaded config
ActionElems == IF config = Nil THEN {} ELSE Range(config.elements)

Init ==
    /\ psd = [layers |-> EngineLayers]
    /\ visibilityOverrides = EmptyMap
    /\ effQuery = Nil
    /\ EngineIdle
    /\ ChatIdle
    /\ LoadIdle
    /\ RenderIdle

SetConfig(c) == SetConfigBody(c) /\ UNCHANGED typed /\ UNCHANGED <<chatVars, loadVars>> /\ UNCHANGED renderVars

InitBatchDone(k) == InitBatchDoneBody(k) /\ UNCHANGED typed /\ UNCHANGED <<chatVars, loadVars>> /\ UNCHANGED renderVars

NavigateToScreen(screenName) ==
    NavigateToScreenBody(screenName) /\ UNCHANGED typed /\ UNCHANGED <<chatVars, loadVars>> /\ UNCHANGED renderVars

TimerFire(t) == TimerFireBody(t) /\ UNCHANGED typed /\ UNCHANGED <<chatVars, loadVars>> /\ UNCHANGED renderVars

StartClocks == StartClocksBody /\ UNCHANGED typed /\ UNCHANGED <<chatVars, loadVars>> /\ UNCHANGED renderVars

DeferredStartClocks == DeferredStartClocksBody /\ UNCHANGED typed /\ UNCHANGED <<chatVars, loadVars>> /\ UNCHANGED renderVars

StopClocks == StopClocksBody /\ UNCHANGED typed /\ UNCHANGED <<chatVars, loadVars>> /\ UNCHANGED renderVars

ClockTick(v) == ClockTickBody(v) /\ UNCHANGED typed /\ UNCHANGED <<chatVars, loadVars>> /\ UNCHANGED renderVars

Clear == ClearBody /\ UNCHANGED typed /\ UNCHANGED <<chatVars, loadVars>> /\ UNCHANGED renderVars

SetSliderValue(layerId, value) ==
    SetSliderValueBody(layerId, value) /\ UNCHANGED typed /\ UNCHANGED <<chatVars, loadVars>> /\ UNCHANGED renderVars

ExecuteAction(e) == ExecuteActionBody(e) /\ UNCHANGED typed /\ UNCHANGED <<chatVars, loadVars>> /\ UNCHANGED renderVars

Next ==
    \/ \E c \in EngineConfigs : SetConfig(c)
    \/ \E k \in 1..Len(pendingInit) : InitBatchDone(k)
    \/ \E screenName \in ScreenNames : NavigateToScreen(screenName)
    \/ \E t \in timeouts : TimerFire(t)
    \/ StartClocks
    \/ DeferredStartClocks
    \/ StopClocks
    \/ \E v \in intervals : ClockTick(v)
    \/ Clear
    \/ \E e \in ActionElems : e.type = "slider" /\ \E value \in SliderValues :
           SetSliderValue(e.layerId, value)
    \/ \E e \in ActionElems : ExecuteAction(e)

Spec == Init /\ [][Next]_vars


(***************************************************************************)
(* Properties of the interaction runtime                                   *)
(***************************************************************************)
OverrideIs(layerId, b) ==
    Has(visibilityOverrides, layerId) /\ visibilityOverrides[layerId] = b

OverrideIsNext(layerId, b) ==
    Has(visibilityOverrides', layerId) /\ visibilityOverrides'[layerId] = b

ElemsOfType(cfg, type) == {e \in Range(cfg.elements) : e.type = type}

\* C2: once no first batch of a setConfig is still in flight, every highlight
\* with a group has its override true exactly when it is the one recorded in
\* selectedHighlights for its group (so at most one per group, and none when
\* the group has no selection).
C2_HighlightGroup ==
    (config # Nil /\ pendingInit = <<>>) =>
        \A h \in ElemsOfType(config, "highlight") :
            h.group # NULL =>
                (OverrideIs(h.layerId, TRUE)
                    <=> (Has(selectedHighlights, h.group)
                            /\ selectedHighlights[h.group] = h.name))

\* C3: every pending screen timer was armed on entering the current screen by
\* the latest navigation, setConfig or clear: none outlives the leaving of its
\* screen, so none can fire and navigate after it.
C3_TimerNeverFiresAfterLeave ==
    \A t \in timeouts :
        /\ ~t.stale
        /\ config # Nil
        /\ t.armedOn = currentScreen
        /\ t.id \in screenTimerIds

\* both timers of screen a are gone after the move to b, whose own timer is pending
C3_Witness ==
    /\ config = CfgMain
    /\ currentScreen = "b"
    /\ Cardinality(timeouts) = 1
    /\ \A t \in timeouts : t.armedOn = "b" /\ t.target = "a"

\* C4: while no config is loaded every runtime map and set is empty, no screen
\* timer is pending and no clock interval is running, so nothing writes to the
\* runtime state until the next setConfig.
C4_ClearResetsAll ==
    config = Nil =>
        /\ currentScreen = NULL
        /\ elementScreenMap = EmptyMap
        /\ sliderValues = EmptyMap
        /\ dynamicTexts = EmptyMap
        /\ activePopups = {}
        /\ selectedHighlights = EmptyMap
        /\ clockTimers = EmptyMap
        /\ screenTimerIds = {}
        /\ timeouts = {}
        /\ intervals = {}

\* the elements whose execution navigates to screenName from the current state
NavigatesTo(e, screenName) ==
    \/ e.action = "navigate" /\ e.target = screenName
    \/ /\ e.action = "navigate_conditional" /\ e.targets # Nil
       /\ currentScreen # NULL /\ Has(e.targets, currentScreen)
       /\ e.targets[currentScreen] = screenName
    \/ e.action \in {"hide_popup", "navigate_from_popup"} /\ e.target = screenName

\* a step that runs navigateToScreen(screenName) with a config loaded
NavigationStep(screenName) ==
    /\ config # Nil
    /\ \/ NavigateToScreen(screenName)
       \/ \E e \in ActionElems : NavigatesTo(e, screenName) /\ ExecuteAction(e)
       \/ \E t \in timeouts : t.action = "navigate" /\ t.target = screenName /\ TimerFire(t)

\* C5: after a navigation to s the override of every screen element's layer is
\* true if and only if the element's name is s.
C5_ScreenExclusive ==
    [][\A s \in ScreenNames :
          NavigationStep(s) =>
              \A e \in ElemsOfType(config, "screen") :
                  OverrideIsNext(e.layerId, e.name = s)]_vars

\* screen b is shown and screen a hidden where the config starts on a
C5_Witness ==
    /\ config = CfgMain
    /\ currentScreen = "b"
    /\ OverrideIs(10, FALSE)
    /\ OverrideIs(90, TRUE)

\* C8: navigate_conditional navigates as navigateToScreen(targets[currentScreen])
\* does when targets has an entry for the current screen, and otherwise leaves
\* currentScreen, activePopups, the pending timers and the overrides unchanged.
C8_NavigateConditional ==
    [][\A e \in ActionElems :
          (e.action = "navigate_conditional" /\ e.targets # Nil /\ ExecuteAction(e)) =>
              IF currentScreen # NULL /\ Has(e.targets, currentScreen)
              THEN NavigateToScreenBody(e.targets[currentScreen])
              ELSE UNCHANGED <<currentScreen, activePopups, timeouts, screenTimerIds,
                               visibilityOverrides>>]_vars

\* on screen b, for which the targets map has no entry, with a popup open
C8_Witness ==
    /\ config = CfgPlain
    /\ currentScreen = "b"
    /\ activePopups = {"p1"}
    /\ OverrideIs(50, TRUE)
    /\ \E e \in ActionElems :
           e.action = "navigate_conditional" /\ ~Has(e.targets, currentScreen)

\* C9: every navigation, whatever triggers it, leaves activePopups empty and
\* the override of every popup element hidden.
C9_PopupsClearedOnNavigation ==
    [][\A s \in ScreenNames :
          NavigationStep(s) =>
              /\ activePopups' = {}
              /\ \A e \in ElemsOfType(config, "popup") : OverrideIsNext(e.layerId, FALSE)]_vars

\* screen a, entered by a navigation (the config starts on b), with both
\* popups overridden to hidden
C9_Witness ==
    /\ config = CfgPlain
    /\ currentScreen = "a"
    /\ activePopups = {}
    /\ OverrideIs(50, FALSE)
    /\ OverrideIs(100, FALSE)


(***************************************************************************)
(* Digit entry: the runtime driven with configs of one, two and three      *)
(* displays and digit keys only.  `typed' is history: the texts setConfig  *)
(* installed and the digits keyed in since.                                *)
(***************************************************************************)
MaxTyped == 4

Digits == {<<"1">>, <<"2">>, <<"3">>}

DigitKey(d, target) ==
    [Elem EXCEPT !.type = "input_digit", !.layerId = 60, !.action = "input_digit",
                 !.value = d, !.target = target]

CfgSingle ==
    [screens |-> <<"a">>,
     initialScreen |-> "a",
     elements |-> <<
        [Elem EXCEPT !.type = "screen", !.layerId = 10, !.name = "a"],
        [Elem EXCEPT !.type = "display", !.layerId = 20, !.name = "disp"],
        DigitKey(<<"1">>, "disp"), DigitKey(<<"2">>, "disp"), DigitKey(<<"3">>, "disp")
     >>]

CfgPair ==
    [screens |-> <<"a">>,
     initialScreen |-> "a",
     elements |-> <<
        [Elem EXCEPT !.type = "screen", !.layerId = 10, !.name = "a"],
        [Elem EXCEPT !.type = "display", !.layerId = 20, !.name = "d1", !.value = <<"-">>],
        [Elem EXCEPT !.type = "display", !.layerId = 30, !.name = "d2", !.value = <<"-">>],
        DigitKey(<<"1">>, "d1,d2"), DigitKey(<<"2">>, "d1,d2"), DigitKey(<<"3">>, "d1,d2")
     >>]

CfgTriple ==
    [screens |-> <<"a">>,
     initialScreen |-> "a",
     elements |-> <<
        [Elem EXCEPT !.type = "screen", !.layerId = 10, !.name = "a"],
        [Elem EXCEPT !.type = "display", !.layerId = 20, !.name = "d1", !.value = <<"-">>],
        [Elem EXCEPT !.type = "dynamic_text", !.layerId = 30, !.name = "d2", !.value = <<"-">>],
        [Elem EXCEPT !.type = "display", !.layerId = 40, !.name = "d3", !.value = <<"-">>],
        DigitKey(<<"1">>, "d1, d2 ,d3,"), DigitKey(<<"2">>, "d1, d2 ,d3,"),
        DigitKey(<<"3">>, "d1, d2 ,d3,")
     >>]

DigitConfigs == {CfgSingle, CfgPair, CfgTriple}

SetConfigDigit(c) ==
    /\ SetConfigBody(c)
    /\ typed' = [from |-> InitialTexts(c, 1, EmptyMap), digits |-> <<>>]
    /\ UNCHANGED <<chatVars, loadVars>> /\ UNCHANGED renderVars

InitBatchDoneDigit(k) == InitBatchDoneBody(k) /\ UNCHANGED typed /\ UNCHANGED <<chatVars, loadVars>> /\ UNCHANGED renderVars

\* a digit key of the loaded config is pressed
DigitEntry(e) ==
    /\ e.action = "input_digit"
    /\ Len(typed.digits) < MaxTyped
    /\ ExecuteActionBody(e)
    /\ typed' = [typed EXCEPT !.digits = Append(@, e.value)]
    /\ UNCHANGED <<chatVars, loadVars>> /\ UNCHANGED renderVars

NextDigit ==
    \/ \E c \in DigitConfigs : SetConfigDigit(c)
    \/ \E k \in 1..Len(pendingInit) : InitBatchDoneDigit(k)
    \/ \E e \in ActionElems : DigitEntry(e)

SpecDigit == Init /\ [][NextDigit]_vars

\* the displays a digit key of the loaded config writes to, left to right
KeyDisplays(e) == DisplayElems(config, TargetNames(e.target))

\* the displays of the loaded config, left to right
ConfigDisplays == SelectSeq(config.elements, IsDisplay)

\* the text of position i of n positions after the digits ds, right-aligned,
\* positions without a digit holding the empty sentinel
RightAligned(ds, i, n) ==
    LET m == IF Len(ds) < n THEN Len(ds) ELSE n
    IN  IF i > n - m THEN ds[i - (n - m)] ELSE <<"-">>

\* C6: on one display holding a two-character text, '--' plus d gives '-d',
\* '-x' plus d gives 'xd' and a full 'xy' is left as it is; so from '--' the
\* display shows the first two digits keyed in, right-aligned.
C6_SingleDisplay ==
    /\ [][\A e \in ActionElems :
             (DigitEntry(e) /\ Len(KeyDisplays(e)) = 1) =>
                 LET id  == KeyDisplays(e)[1].layerId
                     cur == dynamicTexts[id]
                     nxt == dynamicTexts'[id]
                 IN  Len(cur) = 2 =>
                         /\ (cur = <<"-", "-">>) => nxt = <<"-">> \o e.value
                         /\ (cur[1] = "-" /\ cur[2] # "-") => nxt = <<cur[2]>> \o e.value
                         /\ (cur[1] # "-") => nxt = cur]_vars
    /\ [](config # Nil /\ Len(ConfigDisplays) = 1
              /\ typed.from[ConfigDisplays[1].layerId] = <<"-", "-">>
          => dynamicTexts[ConfigDisplays[1].layerId] =
                 RightAligned(typed.digits, 1, 2) \o RightAligned(typed.digits, 2, 2))

\* the keys 1, 2, 3 in turn leave 12 on the display
C6_Witness ==
    /\ config = CfgSingle
    /\ typed.digits = <<<<"1">>, <<"2">>, <<"3">>>>
    /\ dynamicTexts[20] = <<"1", "2">>

\* C7: on n displays of one character each, an input changes nothing when no
\* display holds the empty sentinel; otherwise every display takes the text its
\* right neighbour held before the input and the rightmost takes the digit; so
\* from all '-' the displays show the first min(k, n) digits keyed in,
\* right-aligned, after k inputs.
C7_MultiDisplay ==
    /\ [][\A e \in ActionElems :
             (DigitEntry(e) /\ Len(KeyDisplays(e)) > 1) =>
                 LET ds == KeyDisplays(e)
                     n  == Len(ds)
                 IN  IF \A i \in 1..n : dynamicTexts[ds[i].layerId] # <<"-">>
                     THEN dynamicTexts' = dynamicTexts
                     ELSE /\ \A i \in 1..(n - 1) :
                                 dynamicTexts'[ds[i].layerId] = dynamicTexts[ds[i + 1].layerId]
                          /\ dynamicTexts'[ds[n].layerId] = e.value]_vars
    /\ [](config # Nil /\ Len(ConfigDisplays) > 1
              /\ (\A i \in 1..Len(ConfigDisplays) :
                      typed.from[ConfigDisplays[i].layerId] = <<"-">>)
          => \A i \in 1..Len(ConfigDisplays) :
                 dynamicTexts[ConfigDisplays[i].layerId] =
                     RightAligned(typed.digits, i, Len(ConfigDisplays)))

\* the keys 3, 1, 2, 3 in turn leave 3, 1, 2 on the three displays
C7_Witness ==
    /\ config = CfgTriple
    /\ typed.digits = <<<<"3">>, <<"1">>, <<"2">>, <<"3">>>>
    /\ dynamicTexts[20] = <<"3">>
    /\ dynamicTexts[30] = <<"1">>
    /\ dynamicTexts[40] = <<"2">>


(***************************************************************************)
(* The chat store and the effect of AiChat that hands a new                *)
(* interactionConfig to the runtime.  An API key is set.  A response is    *)
(* what parseInteractionConfig can tell apart: whether it holds a fenced   *)
(* json block, whether the block parses, and the parsed object's elements, *)
(* screens and initialScreen.  `setConfigCalls' is history: the objects    *)
(* the effect has passed to setConfig.                                     *)
(***************************************************************************)
JsonObject(elementsKind, elements, screens, initialScreen) ==
    [elementsKind |-> elementsKind, elements |-> elements, screens |-> screens,
     initialScreen |-> initialScreen]

ChatElements ==
    <<[Elem EXCEPT !.type = "screen", !.layerId = 10, !.name = "a"],
      [Elem EXCEPT !.type = "screen", !.layerId = 90, !.name = "b"],
      [Elem EXCEPT !.type = "button", !.layerId = 60, !.action = "navigate", !.target = "b"]>>

Response(fence, wellFormed, obj) == [fence |-> fence, wellFormed |-> wellFormed, obj |-> obj]

Responses ==
    { \* prose only
      Response(FALSE, FALSE, JsonObject("absent", <<>>, Undefined, NULL)),
      \* a block that is not JSON
      Response(TRUE, FALSE, JsonObject("absent", <<>>, Undefined, NULL)),
      \* {"screens": [...], "initialScreen": "a"}
      Response(TRUE, TRUE, JsonObject("absent", <<>>, <<"a", "b">>, "a")),
      \* {"screens": [...], "initialScreen": "a", "elements": "none"}
      Response(TRUE, TRUE, JsonObject("notArray", <<>>, <<"a", "b">>, "a")),
      \* {"elements": []}
      Response(TRUE, TRUE, JsonObject("array", <<>>, Undefined, NULL)),
      \* {"initialScreen": "a", "elements": [...]}
      Response(TRUE, TRUE, JsonObject("array", ChatElements, Undefined, "a")),
      \* {"screens": [...], "elements": [...]}
      Response(TRUE, TRUE, JsonObject("array", ChatElements, <<"a", "b">>, NULL)),
      \* two complete configs
      Response(TRUE, TRUE, JsonObject("array", ChatElements, <<"a", "b">>, "a")),
      Response(TRUE, TRUE, JsonObject("array", ChatElements, <<"a", "b">>, "b")) }

\* the InteractionConfig a parsed object is used as
AsConfig(obj) ==
    [screens |-> obj.screens, initialScreen |-> obj.initialScreen, elements |-> obj.elements]

\* Nil when the response carries no config
parseInteractionConfig(r) ==
    IF ~r.fence THEN Nil
    ELSE IF ~r.wellFormed THEN Nil
    ELSE IF r.obj.elementsKind = "array" THEN AsConfig(r.obj)
    ELSE Nil

\* the effect of AiChat after interactionConfig became newConfig; changed says
\* whether it is another object than before
ApplyConfigEffect(newConfig, changed) ==
    IF changed /\ newConfig # Nil
    THEN /\ SetConfigBody(newConfig)
         /\ setConfigCalls' = setConfigCalls \cup {newConfig}
    ELSE UNCHANGED <<storeVars, setConfigCalls>>

\* a mutant that does not look at sending
SendUserMessage_NoGuard ==
    /\ sending' = TRUE
    /\ inflight' = [kind |-> "send", snapshot |-> interactionConfig]
    /\ UNCHANGED <<storeVars, typed, renderVars, loadVars, interactionConfig, setConfigCalls>>

SendUserMessage ==
    /\ ~sending
    /\ sending' = TRUE
    /\ inflight' = [kind |-> "send", snapshot |-> interactionConfig]
    /\ UNCHANGED <<storeVars, typed, renderVars, loadVars, interactionConfig, setConfigCalls>>

AnalyzeCurrentPsd ==
    /\ ~sending
    /\ psd # Nil
    /\ sending' = TRUE
    /\ inflight' = [kind |-> "analyze", snapshot |-> interactionConfig]
    /\ UNCHANGED <<storeVars, typed, renderVars, loadVars, interactionConfig, setConfigCalls>>

\* the request resolves with the full text r
ResponseArrives(r) ==
    /\ inflight # Nil
    /\ inflight.kind \in {"send", "analyze"}
    /\ LET parsed == parseInteractionConfig(r)
           newConfig == IF parsed # Nil THEN parsed ELSE inflight.snapshot
       IN  /\ interactionConfig' = newConfig
           /\ ApplyConfigEffect(newConfig, parsed # Nil \/ newConfig # interactionConfig)
    /\ IF inflight.kind = "send"
       THEN sending' = FALSE /\ inflight' = Nil
       ELSE UNCHANGED sending /\ inflight' = [kind |-> "saveHints", snapshot |-> Nil]
    /\ UNCHANGED <<typed, renderVars, loadVars>>

\* analyzeCurrentPsd has saved the hints
HintsSaved ==
    /\ inflight # Nil
    /\ inflight.kind = "saveHints"
    /\ sending' = FALSE
    /\ inflight' = Nil
    /\ UNCHANGED <<storeVars, typed, renderVars, loadVars, interactionConfig, setConfigCalls>>

\* the request rejects
ResponseFails ==
    /\ inflight # Nil
    /\ inflight.kind \in {"send", "analyze"}
    /\ sending' = FALSE
    /\ inflight' = Nil
    /\ UNCHANGED <<storeVars, typed, renderVars, loadVars, interactionConfig, setConfigCalls>>

ClearMessages ==
    /\ interactionConfig' = Nil
    /\ UNCHANGED <<storeVars, typed, renderVars, loadVars, sending, inflight, setConfigCalls>>

NextChat ==
    \/ SendUserMessage
    \/ AnalyzeCurrentPsd
    \/ \E r \in Responses : ResponseArrives(r)
    \/ HintsSaved
    \/ ResponseFails
    \/ ClearMessages

SpecChat == Init /\ [][NextChat]_vars

\* the responses the parser is to turn down
Rejected(r) ==
    \/ r.fence /\ ~r.wellFormed
    \/ /\ r.fence /\ r.wellFormed
       /\ \/ r.obj.elementsKind # "array"
          \/ r.obj.screens = Undefined
          \/ r.obj.initialScreen = NULL

\* C10: a response whose json block is malformed, has no elements array, no
\* screens or no initialScreen leaves interactionConfig and the runtime's
\* config as they were, and setConfig is not run with the object.
C10_RejectedResponse ==
    [][\A r \in Responses :
          (Rejected(r) /\ ResponseArrives(r)) =>
              /\ interactionConfig' = interactionConfig
              /\ config' = config
              /\ setConfigCalls' = setConfigCalls]_vars



(***************************************************************************)
(* SpecLoose: the runtime driven with a config as parseInteractionConfig   *)
(* lets it through: targets that name nothing, a highlight without a name, *)
(* one without a group, a popup that carries showOn.                       *)
(***************************************************************************)
CfgLoose ==
    [screens |-> <<"a", "b">>,
     initialScreen |-> "a",
     elements |-> <<
        [Elem EXCEPT !.type = "screen", !.layerId = 10, !.name = "a"],
        [Elem EXCEPT !.type = "screen", !.layerId = 90, !.name = "b"],
        [Elem EXCEPT !.type = "display", !.layerId = 20, !.name = "disp"],
        [Elem EXCEPT !.type = "highlight", !.layerId = 30, !.name = "h1", !.group = "g"],
        [Elem EXCEPT !.type = "highlight", !.layerId = 40, !.group = "g"],
        [Elem EXCEPT !.type = "highlight", !.layerId = 120, !.name = "hx"],
        [Elem EXCEPT !.type = "popup", !.layerId = 50, !.name = "p1", !.showOn = <<"a">>],
        [Elem EXCEPT !.type = "conditional", !.layerId = 130, !.showOn = <<"b">>],
        [Elem EXCEPT !.type = "button", !.layerId = 60, !.action = "navigate", !.target = "zz"],
        [Elem EXCEPT !.type = "button", !.layerId = 60, !.action = "navigate", !.target = "a"],
        [Elem EXCEPT !.type = "button", !.layerId = 60, !.action = "navigate", !.target = "b"],
        [Elem EXCEPT !.type = "button", !.layerId = 60, !.action = "show_highlight", !.target = "nope"],
        [Elem EXCEPT !.type = "button", !.layerId = 60, !.action = "show_highlight", !.target = "hx"],
        [Elem EXCEPT !.type = "button", !.layerId = 60, !.action = "show_highlight", !.target = "h1"],
        [Elem EXCEPT !.type = "button", !.layerId = 60, !.action = "toggle_highlight", !.target = "h1"],
        [Elem EXCEPT !.type = "button", !.layerId = 60, !.action = "show_popup", !.target = "nope"],
        [Elem EXCEPT !.type = "button", !.layerId = 60, !.action = "show_popup", !.target = "p1"],
        [Elem EXCEPT !.type = "button", !.layerId = 60, !.action = "hide_popup"],
        [Elem EXCEPT !.type = "button", !.layerId = 60, !.action = "navigate_from_popup", !.target = "b"],
        [Elem EXCEPT !.type = "input_digit", !.layerId = 60, !.action = "input_digit",
                     !.value = <<"1">>, !.target = "disp,nope"],
        [Elem EXCEPT !.type = "input_digit", !.layerId = 60, !.action = "input_digit",
                     !.value = <<"1">>, !.target = "nope"],
        [Elem EXCEPT !.type = "button", !.layerId = 60, !.action = "clear_input", !.target = "nope"],
        [Elem EXCEPT !.type = "slider", !.layerId = 60],
        [Elem EXCEPT !.type = "timer", !.action = "navigate", !.target = "a", !.triggerOn = <<"b">>],
        [Elem EXCEPT !.type = "timer", !.action = "navigate", !.target = "b", !.triggerOn = <<"a", "b">>]
     >>]

LooseConfigs == {CfgLoose}

NextLoose ==
    \/ \E c \in LooseConfigs : SetConfig(c)
    \/ \E k \in 1..Len(pendingInit) : InitBatchDone(k)
    \/ \E screenName \in ScreenNames : NavigateToScreen(screenName)
    \/ \E t \in timeouts : TimerFire(t)
    \/ Clear
    \/ \E e \in ActionElems : e.type = "slider" /\ \E value \in SliderValues :
           SetSliderValue(e.layerId, value)
    \/ \E e \in ActionElems : ExecuteAction(e)

SpecLoose == Init /\ [][NextLoose]_vars

\* C11: while a config is loaded, currentScreen is one of the names listed in
\* config.screens.
C11_CurrentScreenDeclared ==
    config # Nil => currentScreen \in Range(config.screens)

\* does the action of element e refer to a name the config does not resolve
UnknownName(e) ==
    \/ /\ e.action = "navigate" /\ e.target # NULL
       /\ FindByTypeName(config, "screen", e.target) = Nil
    \/ /\ e.action \in {"show_highlight", "toggle_highlight"} /\ e.target # NULL
       /\ \/ FindByTypeName(config, "highlight", e.target) = Nil
          \/ FindByTypeName(config, "highlight", e.target).group = NULL
    \/ /\ e.action = "show_popup" /\ e.target # NULL
       /\ FindByTypeName(config, "popup", e.target) = Nil
    \/ /\ \/ e.action = "input_digit" /\ e.value # Undefined
          \/ e.action = "clear_input"
       /\ \E j \in DOMAIN TargetNames(e.target) :
              /\ FindByTypeName(config, "display", TargetNames(e.target)[j]) = Nil
              /\ FindByTypeName(config, "dynamic_text", TargetNames(e.target)[j]) = Nil

\* C12: executing an action that refers to a name the config does not resolve
\* changes no field of the interaction store, no pending timer and no override.
C12_UnknownNameNoOp ==
    [][\A e \in ActionElems :
          (config # Nil /\ UnknownName(e) /\ ExecuteAction(e)) =>
              UNCHANGED <<config, currentScreen, activePopups, selectedHighlights,
                          dynamicTexts, screenTimerIds, timeouts, sliderValues,
                          visibilityOverrides>>]_vars

\* the names a navigation can be given under CfgLoose
LooseNames == ScreenNames \cup {"zz"}

\* the timer elements of the loaded config that trigger on screenName
TimersOf(screenName) ==
    {i \in 1..Len(config.elements) :
        /\ config.elements[i].type = "timer"
        /\ config.elements[i].triggerOn # Undefined
        /\ screenName \in Range(config.elements[i].triggerOn)}

\* C16: right after a navigation to s the pending screen timers are exactly
\* one per timer element whose triggerOn contains s, each armed by this
\* navigation and tracked in screenTimerIds; every timer armed before is gone.
C16_TimersOfDestination ==
    [][\A s \in LooseNames :
          NavigationStep(s) =>
              /\ Cardinality(timeouts') = Cardinality(TimersOf(s))
              /\ screenTimerIds' = {t.id : t \in timeouts'}
              /\ \A t \in timeouts' : t.armedOn = s /\ ~t.stale
              /\ \A i \in TimersOf(s) : \E t \in timeouts' :
                     /\ t.action = config.elements[i].action
                     /\ t.target = config.elements[i].target
              /\ \A t \in timeouts' : \E i \in TimersOf(s) :
                     /\ t.action = config.elements[i].action
                     /\ t.target = config.elements[i].target]_vars

\* on screen b, entered by a navigation (the config starts on a, where one
\* timer is armed): the two timers that trigger on b are pending, and no other
C16_Witness ==
    /\ config = CfgLoose
    /\ currentScreen = "b"
    /\ Cardinality(timeouts) = 2
    /\ \A t \in timeouts : t.armedOn = "b" /\ t.id \in screenTimerIds

\* C17: after a navigation to s every element that carries a showOn list has
\* its override true if and only if s is in the list, whatever its type.
C17_ShowOnVisible ==
    [][\A s \in LooseNames :
          NavigationStep(s) =>
              \A e \in Range(config.elements) :
                  e.showOn # Undefined =>
                      OverrideIsNext(e.layerId, s \in Range(e.showOn))]_vars

\* C18: after a navigation to s every highlight element has its override true
\* if and only if it has a name and a group and selectedHighlights records
\* that name for the group; every other highlight is hidden.
C18_HighlightVisible ==
    [][\A s \in LooseNames :
          NavigationStep(s) =>
              \A e \in ElemsOfType(config, "highlight") :
                  OverrideIsNext(e.layerId,
                                 /\ e.name # NULL
                                 /\ e.group # NULL
                                 /\ Has(selectedHighlights', e.group)
                                 /\ selectedHighlights'[e.group] = e.name)]_vars

\* C19: a navigation leaves selectedHighlights, dynamicTexts and sliderValues
\* as they were.
C19_NavigateKeepsSelections ==
    [][\A s \in LooseNames :
          NavigationStep(s) =>
              UNCHANGED <<selectedHighlights, dynamicTexts, sliderValues>>]_vars

\* on screen b, which only a navigation reaches, with a highlight selected, a
\* digit in the display and a slider value set
C19_Witness ==
    /\ config = CfgLoose
    /\ currentScreen = "b"
    /\ selectedHighlights = [x \in {"g"} |-> "h1"]
    /\ OverrideIs(30, TRUE)
    /\ dynamicTexts = [x \in {20} |-> <<"-", "1">>]
    /\ sliderValues = [x \in {60} |-> 50]

\* C20: hide_popup and navigate_from_popup leave activePopups empty; with a
\* target they do what navigateToScreen(target) does; without one they leave
\* currentScreen, selectedHighlights and the pending screen timers as they
\* were and apply the batch of the current screen, in which every popup is
\* hidden and the screen folders are shown as on the last navigation.
C20_HidePopup ==
    [][\A e \in ActionElems :
          (e.action \in {"hide_popup", "navigate_from_popup"} /\ ExecuteAction(e)) =>
              /\ activePopups' = {}
              /\ IF e.target # NULL
                 THEN NavigateToScreenBody(e.target)
                 ELSE /\ UNCHANGED <<currentScreen, selectedHighlights, timeouts,
                                     screenTimerIds>>
                      /\ \A p \in ElemsOfType(config, "popup") :
                             OverrideIsNext(p.layerId, FALSE)
                      /\ \A sc \in ElemsOfType(config, "screen") :
                             OverrideIsNext(sc.layerId, sc.name = currentScreen)
                      /\ visibilityOverrides' =
                             MapMerge(visibilityOverrides,
                                      ScreenBatch(config, currentScreen, {},
                                                  selectedHighlights))]_vars

\* the popup was opened and dismissed on screen a before the first batch of
\* setConfig was applied: the dismissal has hidden it and shown the folder of
\* a, and the timer armed by setConfig is still the pending one
C20_Witness ==
    /\ config = CfgLoose
    /\ pendingInit # <<>>
    /\ currentScreen = "a"
    /\ activePopups = {}
    /\ OverrideIs(50, FALSE)
    /\ OverrideIs(10, TRUE)
    /\ selectedHighlights = [x \in {"g"} |-> "h1"]
    /\ Cardinality(timeouts) = 1
    /\ \A t \in timeouts : t.armedOn = "a" /\ ~t.stale



(***************************************************************************)
(* SpecRender: the runtime with the renderer's answers.  Every call into   *)
(* the renderer returns a promise; a call in flight is an entry of `calls' *)
(* and may settle, fulfilled or rejected, at any later step.  A composite  *)
(* is the pair of id lists it was rendered with.                           *)
(***************************************************************************)
MaxCalls == 2

MaxEntered == 2

\* a mutant that lists the layers by their own visibility, ancestors left out
RenderLists_Own(ls, ov) ==
    LET Real == {i \in DOMAIN ls : ls[i].type # "groupEnd"}
        Own(i) == OwnVisible(ls, i, ov)
    IN  [hidden |-> {ls[i].id : i \in {j \in Real : ~Own(j) /\ ls[j].visible}},
         shown  |-> {ls[i].id : i \in {j \in Real : Own(j) /\ ~ls[j].visible}}]

\* the hiddenLayerIds / shownLayerIds lists computed from the overrides ov
RenderLists(ls, ov) ==
    LET Real == {i \in DOMAIN ls : ls[i].type # "groupEnd"}
        Eff(i) == computeEffectiveVisibility(ls, ls[i].id, ov)
    IN  [hidden |-> {ls[i].id : i \in {j \in Real : ~Eff(j) /\ ls[j].visible}},
         shown  |-> {ls[i].id : i \in {j \in Real : Eff(j) /\ ~ls[j].visible}}]

\* qtRenderer.renderCompositeWithQt('main', hiddenLayerIds, shownLayerIds) in flight
RenderCall(lists) ==
    [kind |-> "render", hidden |-> lists.hidden, shown |-> lists.shown,
     layerId |-> 0, text |-> <<>>]

\* qtRenderer.setLayerText('main', layerId, text).then(recomposite) in flight
TextCall(layerId, text) ==
    [kind |-> "text", hidden |-> {}, shown |-> {}, layerId |-> layerId, text |-> text]

\* the render setMultipleVisibility awaits after it has set the overrides to ov
BatchRender(ov) ==
    IF psd = Nil THEN <<>> ELSE <<RenderCall(RenderLists(psd.layers, ov))>>

\* the async block of several displays or of clear_input in flight: it awaits
\* setLayerText(layerId, text), then pushes the texts of rest one after the
\* other, then calls recomposite()
ChainCall(pushes) ==
    [kind |-> "chain", hidden |-> {}, shown |-> {}, layerId |-> pushes[1].layerId,
     text |-> pushes[1].text, rest |-> Tail(pushes)]

\* the calls executeAction(e) issues, given the overrides and texts it leaves
IssuedCalls(e, ov, texts) ==
    IF e.action = "navigate" /\ e.target # NULL
    THEN IF config # Nil THEN BatchRender(ov) ELSE <<>>
    ELSE IF e.action = "navigate_conditional" /\ e.targets # Nil
    THEN IF config # Nil /\ currentScreen # NULL /\ Has(e.targets, currentScreen)
         THEN BatchRender(ov) ELSE <<>>
    ELSE IF e.action = "input_digit" /\ e.value # Undefined
    THEN IF config # Nil /\ Len(DisplayElems(config, TargetNames(e.target))) = 1
         THEN LET d == DisplayElems(config, TargetNames(e.target))[1]
              IN  <<TextCall(d.layerId, texts[d.layerId])>>
         ELSE IF config # Nil /\ Len(DisplayElems(config, TargetNames(e.target))) > 1
         THEN LET ds == DisplayElems(config, TargetNames(e.target))
              IN  IF \A j \in 1..Len(ds) :
                         TextOr(dynamicTexts, ds[j].layerId, emptyValue) # emptyValue
                  THEN <<>>
                  ELSE <<ChainCall([j \in 1..Len(ds) |->
                             [layerId |-> ds[j].layerId,
                              text |-> TextOr(texts, ds[j].layerId, emptyValue)]])>>
         ELSE <<>>
    ELSE IF e.action \in {"show_highlight", "toggle_highlight"} /\ e.target # NULL
    THEN IF /\ config # Nil
            /\ FindByTypeName(config, "highlight", e.target) # Nil
            /\ FindByTypeName(config, "highlight", e.target).group # NULL
         THEN BatchRender(ov) ELSE <<>>
    ELSE IF e.action = "show_popup" /\ e.target # NULL
    THEN IF config # Nil /\ FindByTypeName(config, "popup", e.target) # Nil
         THEN BatchRender(ov) ELSE <<>>
    ELSE IF e.action \in {"hide_popup", "navigate_from_popup"}
    THEN IF config # Nil /\ (e.target # NULL \/ currentScreen # NULL)
         THEN BatchRender(ov) ELSE <<>>
    ELSE IF e.action = "clear_input"
    THEN IF config # Nil /\ Len(DisplayElems(config, TargetNames(e.target))) > 0
         THEN LET ds == DisplayElems(config, TargetNames(e.target))
              IN  <<ChainCall([j \in 1..Len(ds) |->
                        [layerId |-> ds[j].layerId,
                         text |-> IF ds[j].value = Undefined THEN emptyValue
                                  ELSE ds[j].value]])>>
         ELSE <<>>
    ELSE <<>>

\* a config of two screens, one display and two digit keys
CfgRender ==
    [screens |-> <<"a", "b">>,
     initialScreen |-> "a",
     elements |-> <<
        [Elem EXCEPT !.type = "screen", !.layerId = 10, !.name = "a"],
        [Elem EXCEPT !.type = "screen", !.layerId = 90, !.name = "b"],
        [Elem EXCEPT !.type = "display", !.layerId = 20, !.name = "disp"],
        [Elem EXCEPT !.type = "button", !.layerId = 60, !.action = "navigate", !.target = "a"],
        [Elem EXCEPT !.type = "button", !.layerId = 60, !.action = "navigate", !.target = "b"],
        DigitKey(<<"1">>, "disp"), DigitKey(<<"2">>, "disp")
     >>]

RenderConfigs == {CfgRender}

\* after loadPsd: the document is loaded and its first render is shown
InitRender ==
    /\ psd = [layers |-> EngineLayers]
    /\ visibilityOverrides = EmptyMap
    /\ effQuery = Nil
    /\ EngineIdle
    /\ ChatIdle
    /\ LoadIdle
    /\ composite = [hidden |-> {}, shown |-> {}]
    /\ error = NULL
    /\ calls = <<>>

\* the calls in flight without the k-th
Settled(k) == [j \in 1..(Len(calls) - 1) |-> IF j < k THEN calls[j] ELSE calls[j + 1]]

SetConfigRender(c) ==
    /\ SetConfigBody(c)
    /\ typed' = [from |-> InitialTexts(c, 1, EmptyMap), digits |-> <<>>]
    /\ calls' = IF \E i \in 1..Len(c.elements) : IsDisplay(c.elements[i])
                THEN calls
                ELSE calls \o BatchRender(visibilityOverrides')
    /\ Len(calls') <= MaxCalls
    /\ UNCHANGED <<composite, error>>
    /\ UNCHANGED <<chatVars, loadVars>>

InitBatchDoneRender(k) ==
    /\ InitBatchDoneBody(k)
    /\ calls' = calls \o BatchRender(visibilityOverrides')
    /\ Len(calls') <= MaxCalls
    /\ UNCHANGED <<typed, composite, error>>
    /\ UNCHANGED <<chatVars, loadVars>>

ExecuteActionRender(e) ==
    /\ e.action # "input_digit"
    /\ ExecuteActionBody(e)
    /\ calls' = calls \o IssuedCalls(e, visibilityOverrides', dynamicTexts')
    /\ Len(calls') <= MaxCalls
    /\ UNCHANGED <<typed, composite, error>>
    /\ UNCHANGED <<chatVars, loadVars>>

\* a digit key of the loaded config is pressed
DigitEntryRender(e) ==
    /\ e.action = "input_digit"
    /\ Len(typed.digits) < MaxEntered
    /\ ExecuteActionBody(e)
    /\ calls' = calls \o IssuedCalls(e, visibilityOverrides', dynamicTexts')
    /\ Len(calls') <= MaxCalls
    /\ typed' = [typed EXCEPT !.digits = Append(@, e.value)]
    /\ UNCHANGED <<composite, error>>
    /\ UNCHANGED <<chatVars, loadVars>>

\* a mutant that drops a composite rendered for other overrides than the current
RenderCompletes_DiscardStale(k) ==
    /\ k \in DOMAIN calls
    /\ calls[k].kind = "render"
    /\ composite' =
           IF [hidden |-> calls[k].hidden, shown |-> calls[k].shown]
                  = RenderLists(psd.layers, visibilityOverrides)
           THEN [hidden |-> calls[k].hidden, shown |-> calls[k].shown]
           ELSE composite
    /\ calls' = Settled(k)
    /\ UNCHANGED <<storeVars, typed, error>>
    /\ UNCHANGED <<chatVars, loadVars>>

\* a render is fulfilled: set({ composite })
RenderCompletes(k) ==
    /\ k \in DOMAIN calls
    /\ calls[k].kind = "render"
    /\ composite' = [hidden |-> calls[k].hidden, shown |-> calls[k].shown]
    /\ calls' = Settled(k)
    /\ UNCHANGED <<storeVars, typed, error>>
    /\ UNCHANGED <<chatVars, loadVars>>

\* a render is rejected: set({ error })
RenderFails(k) ==
    /\ k \in DOMAIN calls
    /\ calls[k].kind = "render"
    /\ error' = "Failed to render"
    /\ calls' = Settled(k)
    /\ UNCHANGED <<storeVars, typed, composite>>
    /\ UNCHANGED <<chatVars, loadVars>>

\* a text push is fulfilled: recomposite() renders from the overrides of now
TextPushed(k) ==
    /\ k \in DOMAIN calls
    /\ calls[k].kind = "text"
    /\ calls' = Settled(k) \o BatchRender(visibilityOverrides)
    /\ UNCHANGED <<storeVars, typed, composite, error>>
    /\ UNCHANGED <<chatVars, loadVars>>

\* a text push is rejected: console.warn
TextPushFails(k) ==
    /\ k \in DOMAIN calls
    /\ calls[k].kind = "text"
    /\ calls' = Settled(k)
    /\ UNCHANGED <<storeVars, typed, composite, error>>
    /\ UNCHANGED <<chatVars, loadVars>>

NextRender ==
    \/ \E c \in RenderConfigs : SetConfigRender(c)
    \/ \E k \in 1..Len(pendingInit) : InitBatchDoneRender(k)
    \/ \E e \in ActionElems : ExecuteActionRender(e)
    \/ \E e \in ActionElems : DigitEntryRender(e)
    \/ \E k \in DOMAIN calls : RenderCompletes(k)
    \/ \E k \in DOMAIN calls : RenderFails(k)
    \/ \E k \in DOMAIN calls : TextPushed(k)
    \/ \E k \in DOMAIN calls : TextPushFails(k)

SpecRender == InitRender /\ [][NextRender]_vars

\* the k-th call in flight is rejected
CallFails(k) == RenderFails(k) \/ TextPushFails(k)

\* C13: when a call into the renderer is rejected the error field of the psd
\* store is set, and the overrides, currentScreen, activePopups,
\* selectedHighlights and dynamicTexts written before stay as they are.
C13_FailureSurfaced ==
    [][\A k \in DOMAIN calls :
          CallFails(k) =>
              /\ error' # NULL
              /\ UNCHANGED <<visibilityOverrides, currentScreen, activePopups,
                             selectedHighlights, dynamicTexts>>]_vars

\* C14: the call an action issues carries the state the action has written
\* (a render the lists of the new overrides, a text push the new text of its
\* layer), and two digits entered on "--" leave the display at the two digits
\* in order whichever calls are in flight or have settled.
C14_LocalStateFirst ==
    /\ [][(calls' # calls /\ Len(calls') >= Len(calls)) =>
             LET c == calls'[Len(calls')] IN
             IF c.kind = "render"
             THEN [hidden |-> c.hidden, shown |-> c.shown]
                      = RenderLists(psd.layers, visibilityOverrides')
             ELSE Has(dynamicTexts', c.layerId) /\ dynamicTexts'[c.layerId] = c.text]_vars
    /\ []((/\ config # Nil
           /\ Len(typed.digits) = 2
           /\ Has(typed.from, 20) /\ typed.from[20] = <<"-", "-">>)
              => dynamicTexts[20] = typed.digits[1] \o typed.digits[2])

\* the pushes of both digits are still in flight and the display already
\* holds the two digits
C14_Witness ==
    /\ calls = <<TextCall(20, <<"-", "1">>), TextCall(20, <<"1", "2">>)>>
    /\ typed.digits = <<<<"1">>, <<"2">>>>
    /\ dynamicTexts[20] = <<"1", "2">>

CfgPanel ==
    [screens |-> <<"a", "b">>,
     initialScreen |-> "a",
     elements |-> <<
        [Elem EXCEPT !.type = "screen", !.layerId = 10, !.name = "a"],
        [Elem EXCEPT !.type = "screen", !.layerId = 90, !.name = "b"],
        [Elem EXCEPT !.type = "popup", !.layerId = 50, !.name = "p1"],
        [Elem EXCEPT !.type = "popup", !.layerId = 100, !.name = "p2"],
        [Elem EXCEPT !.type = "highlight", !.layerId = 30, !.name = "h1", !.group = "g"],
        [Elem EXCEPT !.type = "highlight", !.layerId = 40, !.name = "h2", !.group = "g"],
        [Elem EXCEPT !.type = "highlight", !.layerId = 120, !.name = "h3", !.group = "k"],
        [Elem EXCEPT !.type = "highlight", !.layerId = 130, !.name = "h4", !.group = "k"],
        [Elem EXCEPT !.type = "button", !.layerId = 60, !.action = "show_popup", !.target = "p1"],
        [Elem EXCEPT !.type = "button", !.layerId = 60, !.action = "show_popup", !.target = "p2"],
        [Elem EXCEPT !.type = "button", !.layerId = 60, !.action = "hide_popup"],
        [Elem EXCEPT !.type = "button", !.layerId = 60, !.action = "show_highlight", !.target = "h1"],
        [Elem EXCEPT !.type = "button", !.layerId = 60, !.action = "show_highlight", !.target = "h2"],
        [Elem EXCEPT !.type = "button", !.layerId = 60, !.action = "show_highlight", !.target = "h3"],
        [Elem EXCEPT !.type = "button", !.layerId = 60, !.action = "toggle_highlight", !.target = "h1"],
        [Elem EXCEPT !.type = "button", !.layerId = 60, !.action = "toggle_highlight", !.target = "h4"],
        [Elem EXCEPT !.type = "button", !.layerId = 60, !.action = "navigate", !.target = "a"],
        [Elem EXCEPT !.type = "timer", !.action = "navigate", !.target = "b", !.triggerOn = <<"a">>],
        [Elem EXCEPT !.type = "timer", !.action = "refresh", !.target = "a", !.triggerOn = <<"b">>],
        [Elem EXCEPT !.type = "timer", !.action = "navigate", !.triggerOn = <<"b">>]
     >>]

PanelConfigs == {CfgPanel}

NextPanel ==
    \/ \E c \in PanelConfigs : SetConfig(c)
    \/ \E t \in timeouts : TimerFire(t)
    \/ Clear
    \/ \E e \in ActionElems : ExecuteAction(e)

SpecPanel ==
    Init /\ [][NextPanel]_vars /\ WF_vars(\E t \in timeouts : TimerFire(t))

\* the overrides of every layer but those in ids are as before the step
OverridesKeptBut(ids) ==
    /\ DOMAIN visibilityOverrides' \ ids = DOMAIN visibilityOverrides \ ids
    /\ \A id \in DOMAIN visibilityOverrides \ ids :
           visibilityOverrides'[id] = visibilityOverrides[id]

\* C21: show_popup of a declared popup adds its name to activePopups and sets
\* the override of that popup's layer to true; the override of every other
\* layer, currentScreen, selectedHighlights and the pending timers stay.
C21_ShowPopupDelta ==
    [][\A e \in ActionElems :
          (/\ e.action = "show_popup" /\ e.target # NULL
           /\ FindByTypeName(config, "popup", e.target) # Nil
           /\ ExecuteAction(e)) =>
              LET popupElem == FindByTypeName(config, "popup", e.target) IN
              /\ activePopups' = activePopups \cup {e.target}
              /\ OverrideIsNext(popupElem.layerId, TRUE)
              /\ OverridesKeptBut({popupElem.layerId})
              /\ UNCHANGED <<currentScreen, selectedHighlights, timeouts,
                             screenTimerIds>>]_vars

\* both popups are open at once
C21_Witness ==
    /\ config = CfgPanel
    /\ activePopups = {"p1", "p2"}
    /\ OverrideIs(50, TRUE)
    /\ OverrideIs(100, TRUE)

\* the highlight elements of group g in the loaded config
GroupMembers(g) == {h \in ElemsOfType(config, "highlight") : h.group = g}

\* a highlight action whose target is a highlight with a group
HighlightAction(e) ==
    /\ e.action \in {"show_highlight", "toggle_highlight"} /\ e.target # NULL
    /\ FindByTypeName(config, "highlight", e.target) # Nil
    /\ FindByTypeName(config, "highlight", e.target).group # NULL

\* the selection of group g, NULL when it has none
SelectedOf(sel, g) == IF Has(sel, g) THEN sel[g] ELSE NULL

\* C22: toggle_highlight(h) on the selected highlight of its group removes the
\* group's selection and hides every member; otherwise it makes h the
\* selection and shows h alone, as show_highlight(h) does in every case.
\* show_highlight(h) on the selected h whose group is drawn leaves the
\* selection and the overrides as they are.
C22_ToggleHighlight ==
    [][\A e \in ActionElems :
          (HighlightAction(e) /\ ExecuteAction(e)) =>
              LET g == FindByTypeName(config, "highlight", e.target).group
                  wasSelected == SelectedOf(selectedHighlights, g) = e.target
                  drawn == \A h \in GroupMembers(g) :
                               OverrideIs(h.layerId, h.name = e.target)
              IN  /\ IF e.action = "toggle_highlight" /\ wasSelected
                     THEN /\ ~Has(selectedHighlights', g)
                          /\ \A h \in GroupMembers(g) : OverrideIsNext(h.layerId, FALSE)
                     ELSE /\ SelectedOf(selectedHighlights', g) = e.target
                          /\ \A h \in GroupMembers(g) :
                                 OverrideIsNext(h.layerId, h.name = e.target)
                  /\ (e.action = "show_highlight" /\ wasSelected /\ drawn) =>
                         UNCHANGED <<selectedHighlights, visibilityOverrides>>]_vars

\* h4 has a toggle key only: it was selected by a toggle, in place of h3 or of
\* no selection, and is the one member of its group shown
C22_Witness ==
    /\ config = CfgPanel
    /\ SelectedOf(selectedHighlights, "k") = "h4"
    /\ OverrideIs(130, TRUE)
    /\ OverrideIs(120, FALSE)

\* C23: a highlight action on a highlight of group g changes the selection of
\* g and the overrides of the highlight elements of g only: the selection of
\* every other group, the override of every other layer, currentScreen,
\* activePopups and the pending timers stay.
C23_HighlightFrame ==
    [][\A e \in ActionElems :
          (HighlightAction(e) /\ ExecuteAction(e)) =>
              LET g == FindByTypeName(config, "highlight", e.target).group IN
              /\ DOMAIN selectedHighlights' \ {g} = DOMAIN selectedHighlights \ {g}
              /\ \A x \in DOMAIN selectedHighlights \ {g} :
                     selectedHighlights'[x] = selectedHighlights[x]
              /\ OverridesKeptBut({h.layerId : h \in GroupMembers(g)})
              /\ UNCHANGED <<currentScreen, activePopups, timeouts, screenTimerIds>>]_vars

\* both groups hold a selection, a popup is open, and each selected
\* highlight is shown
C23_Witness ==
    /\ config = CfgPanel
    /\ selectedHighlights = [x \in {"g", "k"} |-> IF x = "g" THEN "h2" ELSE "h4"]
    /\ activePopups = {"p1"}
    /\ OverrideIs(40, TRUE) /\ OverrideIs(30, FALSE)
    /\ OverrideIs(130, TRUE) /\ OverrideIs(120, FALSE)
    /\ OverrideIs(50, TRUE)

\* a timer that navigates is pending on the current screen s
NavTimerPending(s) ==
    /\ config # Nil
    /\ currentScreen = s
    /\ \E t \in timeouts :
           t.armedOn = s /\ t.action = "navigate" /\ t.target # NULL /\ t.target # s

\* C24: the callback of a pending timer whose action is navigate and that has
\* a target does what navigateToScreen(target) does, the callback of any
\* other timer changes nothing but that it is no longer pending, and a screen
\* on which a navigating timer is pending is left sooner or later: by the
\* timer, unless a navigation, setConfig or clear cancels it first.
C24_TimerNavigates ==
    /\ [][\A t \in timeouts :
             TimerFire(t) =>
                 IF t.action = "navigate" /\ t.target # NULL
                 THEN /\ currentScreen' = t.target
                      /\ activePopups' = {}
                      /\ \A sc \in ElemsOfType(config, "screen") :
                             OverrideIsNext(sc.layerId, sc.name = t.target)
                 ELSE /\ timeouts' = timeouts \ {t}
                      /\ UNCHANGED <<config, currentScreen, activePopups,
                                     selectedHighlights, dynamicTexts, sliderValues,
                                     visibilityOverrides, screenTimerIds>>]_vars
    /\ \A s \in ScreenNames : NavTimerPending(s) ~> ~NavTimerPending(s)

\* screen b, which only the timer of screen a enters, after one of its two
\* timers, neither of which navigates, has run
C24_Witness ==
    /\ config = CfgPanel
    /\ currentScreen = "b"
    /\ OverrideIs(90, TRUE)
    /\ Cardinality(timeouts) = 1
    /\ \A t \in timeouts : t.armedOn = "b"


(***************************************************************************)
(* SpecChain: the runtime with the renderer's calls and the async blocks   *)
(* that push several texts.  A block in flight is one entry of `calls'     *)
(* holding the push it awaits and the pushes still to make.                *)
(***************************************************************************)
\* screen a with three displays, a popup and a highlight; a key for the pair
\* d1, d2, a key for d3, their clear keys, and two sliders
CfgChain ==
    [screens |-> <<"a", "b">>,
     initialScreen |-> "a",
     elements |-> <<
        [Elem EXCEPT !.type = "screen", !.layerId = 10, !.name = "a"],
        [Elem EXCEPT !.type = "screen", !.layerId = 90, !.name = "b"],
        [Elem EXCEPT !.type = "display", !.layerId = 20, !.name = "d1", !.value = <<"0">>],
        [Elem EXCEPT !.type = "dynamic_text", !.layerId = 30, !.name = "d2"],
        [Elem EXCEPT !.type = "display", !.layerId = 40, !.name = "d3"],
        [Elem EXCEPT !.type = "popup", !.layerId = 50, !.name = "p1"],
        [Elem EXCEPT !.type = "highlight", !.layerId = 120, !.name = "h1", !.group = "g"],
        DigitKey(<<"1">>, "d1,d2"),
        DigitKey(<<"2">>, "d3"),
        [Elem EXCEPT !.type = "button", !.layerId = 60, !.action = "clear_input",
                     !.target = "d1,d2"],
        [Elem EXCEPT !.type = "button", !.layerId = 60, !.action = "navigate", !.target = "b"],
        [Elem EXCEPT !.type = "button", !.layerId = 60, !.action = "navigate", !.target = "a"],
        [Elem EXCEPT !.type = "button", !.layerId = 60, !.action = "show_highlight",
                     !.target = "h1"],
        [Elem EXCEPT !.type = "button", !.layerId = 60, !.action = "toggle_highlight",
                     !.target = "h1"],
        [Elem EXCEPT !.type = "button", !.layerId = 60, !.action = "show_popup",
                     !.target = "p1"],
        [Elem EXCEPT !.type = "button", !.layerId = 60, !.action = "hide_popup"],
        [Elem EXCEPT !.type = "slider", !.layerId = 60],
        [Elem EXCEPT !.type = "slider", !.layerId = 130]
     >>]

ChainConfigs == {CfgChain}

\* a mutant that recomposites after every push of a block
ChainStep_RenderEach(k) ==
    /\ k \in DOMAIN calls
    /\ calls[k].kind = "chain"
    /\ calls' =
           IF calls[k].rest = <<>>
           THEN Settled(k) \o BatchRender(visibilityOverrides)
           ELSE [calls EXCEPT ![k] = ChainCall(calls[k].rest)]
                    \o BatchRender(visibilityOverrides)
    /\ UNCHANGED <<storeVars, typed, composite, error>>
    /\ UNCHANGED <<chatVars, loadVars>>

\* the push a block awaits settles, fulfilled or rejected (the rejection is
\* caught and logged): the block makes its next push, or, past the last one,
\* calls recomposite()
ChainStep(k) ==
    /\ k \in DOMAIN calls
    /\ calls[k].kind = "chain"
    /\ calls' =
           IF calls[k].rest = <<>>
           THEN Settled(k) \o BatchRender(visibilityOverrides)
           ELSE [calls EXCEPT ![k] = ChainCall(calls[k].rest)]
    /\ UNCHANGED <<storeVars, typed, composite, error>>
    /\ UNCHANGED <<chatVars, loadVars>>

\* the user acts while at most this many calls are in flight
MaxInFlight == 1

NextChain ==
    \/ \E c \in ChainConfigs : Len(calls) < MaxInFlight /\ SetConfigRender(c)
    \/ \E k \in 1..Len(pendingInit) : InitBatchDoneRender(k)
    \/ \E e \in ActionElems : Len(calls) < MaxInFlight /\ ExecuteActionRender(e)
    \/ \E e \in ActionElems : Len(calls) < MaxInFlight /\ DigitEntryRender(e)
    \/ \E e \in ActionElems : e.type = "slider" /\ \E value \in SliderValues :
           SetSliderValue(e.layerId, value)
    \/ \E k \in DOMAIN calls : RenderCompletes(k)
    \/ \E k \in DOMAIN calls : TextPushed(k)
    \/ \E k \in DOMAIN calls : TextPushFails(k)
    \/ \E k \in DOMAIN calls : ChainStep(k)

SpecChain == InitRender /\ [][NextChain]_vars

\* the number of calls of kind knd in flight in cs
CountKind(cs, knd) == Cardinality({k \in DOMAIN cs : cs[k].kind = knd})

\* cs with one more call, a render of the overrides ov in one batch
OneRenderAdded(cs, more, ov) ==
    /\ Len(more) = Len(cs) + 1
    /\ SubSeq(more, 1, Len(cs)) = cs
    /\ more[Len(more)] = RenderCall(RenderLists(psd.layers, ov))

\* the actions that change what is visible
VisibilityAction(e) ==
    \/ e.action = "navigate" /\ e.target # NULL
    \/ e.action \in {"show_highlight", "toggle_highlight"} /\ e.target # NULL
    \/ e.action = "show_popup" /\ e.target # NULL
    \/ e.action = "hide_popup"

\* the actions that push the texts of several displays
TextsAction(e) ==
    \/ e.action = "input_digit" /\ Len(TargetNames(e.target)) > 1
    \/ e.action = "clear_input"

\* C25: navigate, show_highlight, toggle_highlight, show_popup and hide_popup
\* each request one render, made from all the overrides they leave; an
\* input_digit on several displays and a clear_input request no render
\* themselves but start at most one block, and a block requests its one render
\* when its last push has settled and none before.
C25_OneRecomposite ==
    [][/\ \A e \in ActionElems :
              /\ (VisibilityAction(e) /\ ExecuteActionRender(e))
                     => OneRenderAdded(calls, calls', visibilityOverrides')
              /\ (TextsAction(e) /\ (ExecuteActionRender(e) \/ DigitEntryRender(e)))
                     => /\ CountKind(calls', "render") = CountKind(calls, "render")
                        /\ CountKind(calls', "chain") <= CountKind(calls, "chain") + 1
                        /\ e.action = "clear_input"
                               => CountKind(calls', "chain") = CountKind(calls, "chain") + 1
       /\ \A k \in DOMAIN calls :
              ChainStep(k) =>
                  IF calls[k].rest # <<>>
                  THEN /\ CountKind(calls', "render") = CountKind(calls, "render")
                       /\ CountKind(calls', "chain") = CountKind(calls, "chain")
                  ELSE /\ CountKind(calls', "render") = CountKind(calls, "render") + 1
                       /\ CountKind(calls', "chain") = CountKind(calls, "chain") - 1]_vars

\* the block of the pair d1, d2 awaits its last push and no render is in flight
C25_Witness ==
    /\ config = CfgChain
    /\ Len(calls) = 1
    /\ calls[1].kind = "chain"
    /\ calls[1].layerId = 30
    /\ calls[1].rest = <<>>

\* the names a clear_input or input_digit target lists
NamedBy(e) == Range(TargetNames(e.target))

\* C26: clear_input leaves every display its target names at the display's
\* value, or at "-" when it has none, and every other text as it was.
C26_ClearInput ==
    [][\A e \in ActionElems :
           (e.action = "clear_input" /\ ExecuteActionRender(e)) =>
               /\ DOMAIN dynamicTexts' = DOMAIN dynamicTexts
               /\ \A i \in DOMAIN config.elements :
                      LET d == config.elements[i]
                      IN  IsDisplay(d) =>
                              dynamicTexts'[d.layerId] =
                                  IF d.name \in NamedBy(e)
                                  THEN IF d.value = Undefined THEN <<"-">> ELSE d.value
                                  ELSE dynamicTexts[d.layerId]]_vars

\* d1 and d2 cleared to "0" and "-" while d3 keeps the digit keyed into it
C26_Witness ==
    /\ config = CfgChain
    /\ dynamicTexts[20] = <<"0">>
    /\ dynamicTexts[30] = <<"-">>
    /\ dynamicTexts[40] = <<"-", "2">>
    /\ typed.digits = <<<<"1">>, <<"2">>>>

\* C28: setSliderValue(layerId, value) sets the entry of layerId to value,
\* keeps every other entry of sliderValues and every other field of both
\* stores, and puts no call to the renderer in flight.
C28_SliderOnly ==
    [][\A e \in ActionElems : \A value \in SliderValues :
           (e.type = "slider" /\ SetSliderValue(e.layerId, value)) =>
               /\ DOMAIN sliderValues' = DOMAIN sliderValues \cup {e.layerId}
               /\ sliderValues'[e.layerId] = value
               /\ \A l \in DOMAIN sliderValues \ {e.layerId} :
                      sliderValues'[l] = sliderValues[l]
               /\ UNCHANGED <<psd, visibilityOverrides, config, currentScreen,
                              activePopups, selectedHighlights, dynamicTexts,
                              screenTimerIds, clockTimers, timeouts, intervals,
                              elementScreenMap, calls, composite, error>>]_vars

\* both sliders moved, one after the other, with a popup open
C28_Witness ==
    /\ config = CfgChain
    /\ DOMAIN sliderValues = {60, 130}
    /\ activePopups = {"p1"}
    /\ calls = <<>>

\* the display and dynamic_text elements of cfg
DisplaysOf(cfg) == {cfg.elements[i] : i \in {j \in DOMAIN cfg.elements :
                                                IsDisplay(cfg.elements[j])}}

\* what setConfig(c) leaves in the store, timers aside
FreshStore(c) ==
    /\ config' = c
    /\ currentScreen' = c.initialScreen
    /\ activePopups' = {}
    /\ selectedHighlights' = EmptyMap
    /\ sliderValues' = EmptyMap
    /\ DOMAIN dynamicTexts' = {d.layerId : d \in DisplaysOf(c)}
    /\ \A d \in DisplaysOf(c) :
           d.value # Undefined => dynamicTexts'[d.layerId] = d.value

\* after setConfig(c) the pending timeouts are those of the timers of
\* c.initialScreen, one each, all recorded in screenTimerIds
FreshScreenTimers(c) ==
    /\ \A t \in timeouts' : ~t.stale /\ t.armedOn = c.initialScreen
    /\ screenTimerIds' = {t.id : t \in timeouts'}
    /\ Cardinality(timeouts') =
           Cardinality({i \in DOMAIN c.elements :
                           /\ c.elements[i].type = "timer"
                           /\ c.elements[i].triggerOn # Undefined
                           /\ c.initialScreen \in Range(c.elements[i].triggerOn)})

\* C27 (as stated; violated through the clock intervals): setConfig(c) leaves
\* currentScreen at c.initialScreen, no popup, selection or slider value, the
\* displays' initial texts and nothing else in dynamicTexts, no timer of the
\* config before it running, and the screen timers of c.initialScreen armed.
C27_FreshState ==
    [][\A c \in EngineConfigs :
           SetConfig(c) =>
               /\ FreshStore(c)
               /\ FreshScreenTimers(c)
               /\ intervals' = {}]_vars

\* the part of C27 that holds: everything but the clock intervals
C27_FreshButClocks ==
    [][\A c \in EngineConfigs :
           SetConfig(c) => FreshStore(c) /\ FreshScreenTimers(c)]_vars


(***************************************************************************)
(* SpecScreenMap: setConfig over every tree shape of up to MaxLayers       *)
(* entries, with one or two of its layers tagged as screens and an element *)
(* on every other layer and on one id the document does not have.          *)
(***************************************************************************)
MaxScreens == 2

\* the layer list of a tree shape, every layer authored visible
ShapeLayers(ks) == EmitLayers(ks, [i \in 1..Len(ks) |-> ks[i] # "groupEnd"])

RealIds(ls) == {ls[i].id : i \in {j \in DOMAIN ls : ls[j].type # "groupEnd"}}

\* the members of a set of numbers in increasing order
Ascending(S) ==
    [k \in 1..Cardinality(S) |-> CHOOSE x \in S : Cardinality({y \in S : y < x}) = k - 1]

\* screens "a", "b", ... on the layers of S and a button on every other id
MapConfig(ls, S) ==
    LET names == <<"a", "b", "c">>
        sc == Ascending(S)
        bt == Ascending(IdsAround(ls) \ S)
    IN  [screens |-> [k \in 1..Len(sc) |-> names[k]],
         initialScreen |-> names[Len(sc)],
         elements |->
             [k \in 1..Len(sc) |->
                 [Elem EXCEPT !.type = "screen", !.layerId = sc[k], !.name = names[k]]]
             \o
             [k \in 1..Len(bt) |->
                 [Elem EXCEPT !.type = "button", !.layerId = bt[k],
                              !.action = "navigate", !.target = "a"]]]

MapConfigs(ls) ==
    {MapConfig(ls, S) : S \in {T \in SUBSET RealIds(ls) : Cardinality(T) \in 1..MaxScreens}}

InitScreenMap ==
    /\ \E ks \in KindSeqs : psd = [layers |-> ShapeLayers(ks)]
    /\ visibilityOverrides = EmptyMap
    /\ effQuery = Nil
    /\ EngineIdle
    /\ ChatIdle
    /\ LoadIdle
    /\ RenderIdle

NextScreenMap ==
    \/ \E c \in MapConfigs(psd.layers) : SetConfig(c)
    \/ \E e \in ActionElems : ExecuteAction(e)
    \/ Clear

SpecScreenMap == InitScreenMap /\ [][NextScreenMap]_vars

\* the screen folders that enclose the layer of id in ls: the indices of the
\* groups tagged as screens by cfg that open before it and close after it
ScreenFolders(cfg, ls, id) ==
    {g \in EnclosingGroups(ls, IndexOf(ls, id)) :
        \E i \in DOMAIN cfg.elements :
            cfg.elements[i].type = "screen" /\ cfg.elements[i].layerId = ls[g].id}

\* the name cfg gives the screen on the layer lid
NameOfScreen(cfg, lid) ==
    cfg.elements[CHOOSE i \in DOMAIN cfg.elements :
                    cfg.elements[i].type = "screen" /\ cfg.elements[i].layerId = lid].name

\* C29: while a config is loaded, elementScreenMap holds for every non-screen
\* element whose layer exists and lies inside a screen folder the name of the
\* innermost such folder, and nothing else; only setConfig and clear change
\* the map.
C29_ScreenMap ==
    /\ [](config # Nil =>
            LET ls == psd.layers
                Others == {config.elements[i].layerId :
                              i \in {j \in DOMAIN config.elements :
                                        config.elements[j].type # "screen"}}
                Inside == {id \in Others :
                              Exists(ls, id) /\ ScreenFolders(config, ls, id) # {}}
            IN  /\ DOMAIN elementScreenMap = Inside
                /\ \A id \in Inside :
                       LET F == ScreenFolders(config, ls, id)
                           g == CHOOSE x \in F : \A y \in F : y <= x
                       IN  elementScreenMap[id] = NameOfScreen(config, ls[g].id))
    /\ [][elementScreenMap' # elementScreenMap =>
             \/ \E c \in MapConfigs(psd.layers) : SetConfig(c)
             \/ Clear]_vars

\* screen a is the folder 10; the layer 40 lies in it behind the closed folder
\* 20, which is screen b, and the layer 60 does not exist
C29_Witness ==
    /\ config # Nil
    /\ KindsOf(psd.layers) = <<"group", "group", "groupEnd", "layer", "groupEnd">>
    /\ DOMAIN elementScreenMap = {40}
    /\ elementScreenMap[40] = "a"
    /\ currentScreen = "a"


(***************************************************************************)
(* SpecBounds: loadPsd from the point where parsePsd has resolved.  The    *)
(* parsed layers carry their rects; parsedPsd keeps them as they arrived,  *)
(* the array itself is updated in place and becomes psd.layers.            *)
(***************************************************************************)
\* the rects a parsed layer or group may carry: empty, two boxes, and one
\* with a height but no width
RectChoices ==
    { [x |-> 0,  y |-> 0, width |-> 0, height |-> 0],
      [x |-> 1,  y |-> 2, width |-> 2, height |-> 1],
      [x |-> -1, y |-> 0, width |-> 1, height |-> 3],
      [x |-> 3,  y |-> 1, width |-> 0, height |-> 2] }

\* the layer list parsePsd emits for a tree shape ks with rects rs; a
\* groupEnd marker carries no rect, and none is ever read from it
RectLayers(ks, rs) ==
    [i \in 1..Len(ks) |->
        IF ks[i] = "groupEnd"
        THEN [id |-> 10 * MatchStart(ks, i), type |-> "groupEnd", visible |-> FALSE,
              x |-> 0, y |-> 0, width |-> 0, height |-> 0]
        ELSE [id |-> 10 * i, type |-> ks[i], visible |-> TRUE,
              x |-> rs[i].x, y |-> rs[i].y, width |-> rs[i].width,
              height |-> rs[i].height]]

RectsFor(ks) ==
    {rs \in [1..Len(ks) -> RectChoices] :
        \A i \in 1..Len(ks) : ks[i] = "groupEnd" => rs[i].width = 0 /\ rs[i].height = 0
                                                    /\ rs[i].x = 0 /\ rs[i].y = 0}

\* minX = minY = Infinity, maxX = maxY = -Infinity
NoBox == [any |-> FALSE, minX |-> 0, minY |-> 0, maxX |-> 0, maxY |-> 0]

Max2(a, b) == IF a >= b THEN a ELSE b

Min2(a, b) == IF a <= b THEN a ELSE b

\* the four Math.min / Math.max assignments for one child
Extend(acc, child) ==
    IF ~acc.any
    THEN [any |-> TRUE, minX |-> child.x, minY |-> child.y,
          maxX |-> child.x + child.width, maxY |-> child.y + child.height]
    ELSE [any |-> TRUE,
          minX |-> Min2(acc.minX, child.x), minY |-> Min2(acc.minY, child.y),
          maxX |-> Max2(acc.maxX, child.x + child.width),
          maxY |-> Max2(acc.maxY, child.y + child.height)]

RECURSIVE BoundsScan_FirstEnd(_, _, _, _)
\* a mutant that stops at the first groupEnd marker
BoundsScan_FirstEnd(ls, j, depth, acc) ==
    IF j > Len(ls) THEN acc
    ELSE IF ls[j].type = "groupEnd" THEN acc
    ELSE BoundsScan_FirstEnd(ls, j + 1, depth,
                             IF ls[j].width > 0 /\ ls[j].height > 0
                             THEN Extend(acc, ls[j]) ELSE acc)

RECURSIVE BoundsScan(_, _, _, _)
\* the inner loop of computeGroupBounds from index j on
BoundsScan(ls, j, depth, acc) ==
    IF j > Len(ls) THEN acc
    ELSE IF ls[j].type = "groupEnd"
         THEN IF depth = 0 THEN acc ELSE BoundsScan(ls, j + 1, depth - 1, acc)
    ELSE BoundsScan(ls, j + 1,
                    IF ls[j].type = "group" THEN depth + 1 ELSE depth,
                    IF ls[j].width > 0 /\ ls[j].height > 0
                    THEN Extend(acc, ls[j]) ELSE acc)

RECURSIVE computeGroupBounds(_, _)
\* the outer loop from index i on; the list is updated in place
computeGroupBounds(ls, i) ==
    IF i > Len(ls) THEN ls
    ELSE IF ls[i].type # "group" THEN computeGroupBounds(ls, i + 1)
    ELSE IF ls[i].width > 0 /\ ls[i].height > 0 THEN computeGroupBounds(ls, i + 1)
    ELSE LET acc == BoundsScan(ls, i + 1, 0, NoBox)
         IN  computeGroupBounds(
                 IF acc.any
                 THEN [ls EXCEPT ![i].x = acc.minX, ![i].y = acc.minY,
                                 ![i].width = acc.maxX - acc.minX,
                                 ![i].height = acc.maxY - acc.minY]
                 ELSE ls,
                 i + 1)

\* loadPsd(data, "a.psd") has been called on the fresh store and awaits parsePsd
InitBounds ==
    /\ \E ks \in KindSeqs : \E rs \in RectsFor(ks) :
           parsedPsd = [layers |-> RectLayers(ks, rs)]
    /\ psd = Nil
    /\ visibilityOverrides = EmptyMap
    /\ effQuery = Nil
    /\ EngineIdle
    /\ ChatIdle
    /\ RenderIdle
    /\ loadingGuard = TRUE
    /\ loading = TRUE
    /\ fileName = NULL
    /\ pendingLoad = [fileName |-> "a.psd", stage |-> "parse"]

\* qtRenderer.renderCompositeWithQt('main', [], []) of loadPsd in flight
LoadRenderCall ==
    [kind |-> "loadRender", hidden |-> {}, shown |-> {}, layerId |-> 0, text |-> <<>>]

\* loadPsd after parsePsd: the bounds are computed, the document is stored
\* under its file name and its first render, with no layer hidden or shown,
\* is awaited; restoring saved hints changes nothing in the store
LoadPsdParsed ==
    /\ pendingLoad # Nil
    /\ pendingLoad.stage = "parse"
    /\ psd' = [layers |-> computeGroupBounds(parsedPsd.layers, 1)]
    /\ composite' = Nil
    /\ fileName' = pendingLoad.fileName
    /\ calls' = Append(calls, LoadRenderCall)
    /\ pendingLoad' = [pendingLoad EXCEPT !.stage = "render"]
    /\ UNCHANGED <<visibilityOverrides, effQuery, error, parsedPsd, loadingGuard, loading>>
    /\ UNCHANGED engineVars
    /\ UNCHANGED chatVars

\* the first render of loadPsd is fulfilled: set({ composite }), then finally
LoadRenderDone(k) ==
    /\ k \in DOMAIN calls
    /\ calls[k].kind = "loadRender"
    /\ composite' = [hidden |-> calls[k].hidden, shown |-> calls[k].shown]
    /\ calls' = Settled(k)
    /\ loadingGuard' = FALSE
    /\ loading' = FALSE
    /\ pendingLoad' = Nil
    /\ UNCHANGED <<psd, visibilityOverrides, effQuery, error, parsedPsd, fileName>>
    /\ UNCHANGED engineVars
    /\ UNCHANGED chatVars

NextBounds ==
    \/ LoadPsdParsed
    \/ \E k \in DOMAIN calls : LoadRenderDone(k)

SpecBounds == InitBounds /\ [][NextBounds]_vars

\* the descendants of the group at index g that have an area
AreaDescendants(ls, g) ==
    {j \in (g + 1)..(MatchEnd(KindsOf(ls), g) - 1) :
        ls[j].type # "groupEnd" /\ ls[j].width * ls[j].height # 0}

Least(S) == CHOOSE x \in S : \A y \in S : x <= y

Greatest(S) == CHOOSE x \in S : \A y \in S : y <= x

\* C30: in the stored layers every group that was parsed with an empty rect
\* and has a descendant with an area carries the smallest box around all its
\* descendants with an area, as parsed; every other entry is as parsed.
C30_GroupBounds ==
    psd # Nil =>
        LET was == parsedPsd.layers
            out == psd.layers
        IN  /\ Len(out) = Len(was)
            /\ \A i \in 1..Len(was) :
                   IF /\ was[i].type = "group"
                      /\ was[i].width * was[i].height = 0
                      /\ AreaDescendants(was, i) # {}
                   THEN LET D == AreaDescendants(was, i) IN
                        /\ out[i].x = Least({was[j].x : j \in D})
                        /\ out[i].y = Least({was[j].y : j \in D})
                        /\ out[i].x + out[i].width
                               = Greatest({was[j].x + was[j].width : j \in D})
                        /\ out[i].y + out[i].height
                               = Greatest({was[j].y + was[j].height : j \in D})
                        /\ out[i].id = was[i].id
                        /\ out[i].type = was[i].type
                        /\ out[i].visible = was[i].visible
                   ELSE out[i] = was[i]

\* a folder parsed empty that holds two boxes carries the box around both;
\* the layer after it is as parsed
C30_Witness ==
    /\ psd # Nil
    /\ KindsOf(psd.layers) = <<"group", "layer", "layer", "groupEnd", "layer">>
    /\ parsedPsd.layers[1].width = 0 /\ parsedPsd.layers[1].height = 0
    /\ parsedPsd.layers[2].x = 1
    /\ parsedPsd.layers[3].x = -1
    /\ psd.layers[1].x = -1 /\ psd.layers[1].y = 0
    /\ psd.layers[1].width = 4 /\ psd.layers[1].height = 3
    /\ psd.layers[5] = parsedPsd.layers[5]


(***************************************************************************)
(* SpecLists: recomposite over every layer list and every override map,    *)
(* and what the renderer makes of the lists it is handed.                  *)
(***************************************************************************)
\* usePsdStore.recomposite(): the lists are computed from the overrides of
\* now and the render is awaited
Recomposite ==
    /\ Len(calls) < MaxInFlight
    /\ calls' = calls \o BatchRender(visibilityOverrides)
    /\ UNCHANGED <<storeVars, typed, composite, error>>
    /\ UNCHANGED <<chatVars, loadVars>>

NextLists ==
    \/ Recomposite
    \/ \E k \in DOMAIN calls : RenderCompletes(k)

SpecLists == InitVis /\ [][NextLists]_vars

\* renderCompositeWithQt: the visible flag of every item of the scene after
\* the reset to the authored flags, the hidden ids and then the shown ids
SceneFlags(ls, hiddenIds, shownIds) ==
    [id \in RealIds(ls) |->
        IF id \in shownIds THEN TRUE
        ELSE IF id \in hiddenIds THEN FALSE
        ELSE ls[IndexOf(ls, id)].visible]

\* C31: the hidden and shown lists of every render in flight share no id, and
\* the scene they produce gives every layer and group the effective
\* visibility computeEffectiveVisibility gives it under the overrides.
C31_ListsMatchEffective ==
    \A k \in DOMAIN calls :
        calls[k].kind = "render" =>
            /\ calls[k].hidden \cap calls[k].shown = {}
            /\ \A id \in RealIds(psd.layers) :
                   SceneFlags(psd.layers, calls[k].hidden, calls[k].shown)[id]
                       = computeEffectiveVisibility(psd.layers, id, visibilityOverrides)

\* a render in flight that hides a layer authored visible because its folder
\* is overridden to hidden, and shows one authored hidden
C31_Witness ==
    /\ Len(calls) = 1
    /\ KindsOf(psd.layers) = <<"group", "layer", "groupEnd", "layer">>
    /\ psd.layers[2].visible
    /\ visibilityOverrides = (10 :> FALSE @@ 40 :> TRUE)
    /\ calls[1].hidden = {10, 20}
    /\ calls[1].shown = {40}


\* C32 (as stated; violated by the first batch of setConfig): once no first
\* batch is in flight the override of every screen folder says whether it is
\* the current screen, and the overrides of the highlights and popups agree
\* with selectedHighlights and activePopups, whatever was dispatched while
\* the batch was in flight.
C32_InitialBatchNotStale ==
    (config # Nil /\ pendingInit = <<>>) =>
        /\ \A sc \in ElemsOfType(config, "screen") :
               LayerExists(sc.layerId) => OverrideIs(sc.layerId, sc.name = currentScreen)
        /\ \A h \in ElemsOfType(config, "highlight") :
               h.group # NULL =>
                   OverrideIs(h.layerId, Has(selectedHighlights, h.group)
                                             /\ selectedHighlights[h.group] = h.name)
        /\ \A p \in ElemsOfType(config, "popup") :
               OverrideIs(p.layerId, p.name \in activePopups)

\* the same with no action dispatched while a first batch is in flight: the
\* step that ends the batch is the step after its setConfig
C32_BatchAlone ==
    [][\A k \in 1..Len(pendingInit) :
           (InitBatchDone(k) /\ config = pendingInit[k] /\ Len(pendingInit) = 1
                /\ currentScreen = config.initialScreen /\ activePopups = {}
                /\ selectedHighlights = EmptyMap)
               => C32_InitialBatchNotStale']_vars

\* the state the first batch leaves when navigate ran while it was in flight:
\* screen b is current and the folder of screen a is the one shown
C32_StaleAfterNavigate ==
    /\ config = CfgMain
    /\ pendingInit = <<>>
    /\ currentScreen = "b"
    /\ OverrideIs(10, TRUE)
    /\ OverrideIs(90, FALSE)


\* C33 (as stated; violated by a second startClocks): no clock element has
\* two intervals running, and the handle of every running interval is in
\* clockTimers, where stopClocks, clear and setConfig find it.
C33_ClockIntervalsTracked ==
    /\ \A v \in intervals : \A w \in intervals : v.layerId = w.layerId => v = w
    /\ \A v \in intervals : Has(clockTimers, v.layerId) /\ clockTimers[v.layerId] = v.id


\* C34: clear_input restores every display it names to exactly the text that
\* setConfig seeded for it, a display without a value included.
C34_ClearRestoresSeed ==
    [][\A e \in ActionElems :
           (e.action = "clear_input" /\ ExecuteActionRender(e)) =>
               \A i \in DOMAIN config.elements :
                   LET d == config.elements[i]
                   IN  (IsDisplay(d) /\ d.name \in NamedBy(e)) =>
                           dynamicTexts'[d.layerId] =
                               InitialTexts(config, 1, EmptyMap)[d.layerId]]_vars

\* the part of C34 that the code keeps: a display that has a value is
\* restored to the text setConfig seeded
C34_ValuedRestored ==
    [][\A e \in ActionElems :
           (e.action = "clear_input" /\ ExecuteActionRender(e)) =>
               \A i \in DOMAIN config.elements :
                   LET d == config.elements[i]
                   IN  (IsDisplay(d) /\ d.name \in NamedBy(e) /\ d.value # Undefined) =>
                           dynamicTexts'[d.layerId] =
                               InitialTexts(config, 1, EmptyMap)[d.layerId]]_vars

\* d2, seeded with "--", holds "-" after clear_input
C34_SeedLost ==
    /\ config = CfgChain
    /\ dynamicTexts[20] = <<"0">>
    /\ dynamicTexts[30] = <<"-">>



(***************************************************************************)
(* The interaction store driven while no config is loaded: overlays of an  *)
(* earlier config still hand their elements to executeAction, before       *)
(* setConfig and after clear.                                              *)
(***************************************************************************)
\* the elements a caller can hand to executeAction whatever config is loaded
DispatchElems == Range(CfgChain.elements)

\* navigateToScreen(screenName) called directly
NavigateToScreenRender(screenName) ==
    /\ DoNavigate(screenName, timeouts)
    /\ calls' = calls \o (IF config # Nil THEN BatchRender(visibilityOverrides') ELSE <<>>)
    /\ Len(calls') <= MaxCalls
    /\ UNCHANGED <<typed, composite, error>>
    /\ UNCHANGED <<chatVars, loadVars>>

NextNoConfig ==
    \/ \E c \in ChainConfigs : Len(calls) < MaxInFlight /\ SetConfigRender(c)
    \/ \E k \in 1..Len(pendingInit) : InitBatchDoneRender(k)
    \/ Clear
    \/ \E screenName \in ScreenNames :
           Len(calls) < MaxInFlight /\ NavigateToScreenRender(screenName)
    \/ \E e \in DispatchElems : Len(calls) < MaxInFlight /\ ExecuteActionRender(e)
    \/ \E e \in DispatchElems : Len(calls) < MaxInFlight /\ DigitEntryRender(e)
    \/ \E k \in DOMAIN calls : RenderCompletes(k)
    \/ \E k \in DOMAIN calls : TextPushed(k)
    \/ \E k \in DOMAIN calls : ChainStep(k)

SpecNoConfig == InitRender /\ [][NextNoConfig]_vars

\* C35: while no config is loaded, navigateToScreen and every action of
\* executeAction leave the runtime state of the engine as it is, arm no timer
\* and request no render.
C35_InertWithoutConfig ==
    [][(/\ config = Nil
        /\ \/ \E screenName \in ScreenNames : NavigateToScreenRender(screenName)
           \/ \E e \in DispatchElems : ExecuteActionRender(e)
           \/ \E e \in DispatchElems : DigitEntryRender(e))
       => /\ UNCHANGED <<config, currentScreen, activePopups, selectedHighlights,
                         dynamicTexts, elementScreenMap, sliderValues,
                         screenTimerIds, clockTimers>>
          /\ UNCHANGED <<timeouts, intervals, pendingStartClocks, pendingInit>>
          /\ UNCHANGED <<visibilityOverrides, calls, composite, error>>]_vars

\* the store holds nothing of a config whenever none is loaded, so the set
\* that hide_popup writes equals the one it replaces
C35_IdleStateEmpty ==
    config = Nil =>
        /\ currentScreen = NULL
        /\ activePopups = {}
        /\ selectedHighlights = EmptyMap
        /\ dynamicTexts = EmptyMap

\* two digit keys were pressed before any config was loaded, and nothing was
\* written or requested
C35_Witness ==
    /\ config = Nil
    /\ typed.from = EmptyMap
    /\ Len(typed.digits) = MaxEntered
    /\ dynamicTexts = EmptyMap
    /\ calls = <<>>



(***************************************************************************)
(* SpecStore: the psd store over its life: documents are loaded one after  *)
(* the other, layers are toggled, the store is cleared, and the renderer   *)
(* answers or rejects.                                                     *)
(***************************************************************************)
\* the files dropped on the page
Files == {"one.psd", "two.psd"}

\* the layer list parsePsd emits for a tree shape ks with authored flags vis,
\* every layer and group with the same box
FlaggedLayers(ks, vis) ==
    [i \in 1..Len(ks) |->
        IF ks[i] = "groupEnd"
        THEN [id |-> 10 * MatchStart(ks, i), type |-> "groupEnd", visible |-> FALSE,
              x |-> 0, y |-> 0, width |-> 0, height |-> 0]
        ELSE [id |-> 10 * i, type |-> ks[i], visible |-> vis[i],
              x |-> 1, y |-> 2, width |-> 2, height |-> 1]]

\* what parsePsd resolves with for each file: a folder with a layer in it and
\* a hidden layer after it; a layer and a hidden folder with a layer in it
ParsedBy(f) ==
    IF f = "one.psd"
    THEN [layers |-> FlaggedLayers(<<"group", "layer", "groupEnd", "layer">>,
                                   <<TRUE, TRUE, FALSE, FALSE>>)]
    ELSE [layers |-> FlaggedLayers(<<"layer", "group", "layer", "groupEnd">>,
                                   <<TRUE, FALSE, TRUE, FALSE>>)]

\* the ids the layer panel may hand to toggleLayerVisibility: those of the
\* documents and one that no document has
ToggleIds == {10, 20, 30, 40, 50}

InitStore ==
    /\ psd = Nil
    /\ visibilityOverrides = EmptyMap
    /\ effQuery = Nil
    /\ EngineIdle
    /\ ChatIdle
    /\ LoadIdle
    /\ RenderIdle

\* a mutant without the guard
LoadPsd_NoGuard(f) ==
    /\ loadingGuard' = TRUE
    /\ loading' = TRUE
    /\ error' = NULL
    /\ pendingLoad' = [fileName |-> f, stage |-> "parse"]
    /\ parsedPsd' = ParsedBy(f)
    /\ UNCHANGED <<psd, visibilityOverrides, effQuery, composite, calls, fileName>>
    /\ UNCHANGED engineVars
    /\ UNCHANGED chatVars

\* loadPsd(data, f) up to its first await
LoadPsd(f) ==
    IF loadingGuard THEN UNCHANGED vars
    ELSE /\ loadingGuard' = TRUE
         /\ loading' = TRUE
         /\ error' = NULL
         /\ pendingLoad' = [fileName |-> f, stage |-> "parse"]
         /\ parsedPsd' = ParsedBy(f)
         /\ UNCHANGED <<psd, visibilityOverrides, effQuery, composite, calls, fileName>>
         /\ UNCHANGED engineVars
         /\ UNCHANGED chatVars

\* initialize or parsePsd is rejected: catch, then finally
LoadParseFails ==
    /\ pendingLoad # Nil
    /\ pendingLoad.stage = "parse"
    /\ error' = "Failed to load PSD"
    /\ loadingGuard' = FALSE
    /\ loading' = FALSE
    /\ pendingLoad' = Nil
    /\ UNCHANGED <<psd, visibilityOverrides, effQuery, composite, calls, parsedPsd,
                   fileName>>
    /\ UNCHANGED engineVars
    /\ UNCHANGED chatVars

\* the first render of loadPsd is rejected: catch, then finally
LoadRenderFails(k) ==
    /\ k \in DOMAIN calls
    /\ calls[k].kind = "loadRender"
    /\ error' = "Failed to load PSD"
    /\ calls' = Settled(k)
    /\ loadingGuard' = FALSE
    /\ loading' = FALSE
    /\ pendingLoad' = Nil
    /\ UNCHANGED <<psd, visibilityOverrides, effQuery, composite, parsedPsd, fileName>>
    /\ UNCHANGED engineVars
    /\ UNCHANGED chatVars

\* a mutant that writes the authored flag instead of the negated own visibility
ToggleOverrides_Authored(ls, ov, layerId) ==
    MapSet(ov, layerId, ls[IndexOf(ls, layerId)].visible)

\* the overrides toggleLayerVisibility(layerId) stores: the own visibility of
\* the first entry with this id, negated
ToggleOverrides(ls, ov, layerId) ==
    LET layer == ls[IndexOf(ls, layerId)]
        currentVisible == IF Has(ov, layerId) THEN ov[layerId] ELSE layer.visible
    IN  MapSet(ov, layerId, ~currentVisible)

\* toggleLayerVisibility(layerId) up to its await
ToggleLayerVisibility(layerId) ==
    IF psd = Nil \/ layerId \notin {psd.layers[i].id : i \in DOMAIN psd.layers}
    THEN UNCHANGED vars
    ELSE /\ visibilityOverrides' =
                ToggleOverrides(psd.layers, visibilityOverrides, layerId)
         /\ calls' = Append(calls, RenderCall(RenderLists(psd.layers,
                                                          visibilityOverrides')))
         /\ UNCHANGED <<psd, effQuery, composite, error>>
         /\ UNCHANGED engineVars
         /\ UNCHANGED <<chatVars, loadVars>>

\* usePsdStore.clear()
ClearPsd ==
    /\ psd' = Nil
    /\ composite' = Nil
    /\ error' = NULL
    /\ fileName' = NULL
    /\ visibilityOverrides' = EmptyMap
    /\ UNCHANGED <<effQuery, calls, parsedPsd, loadingGuard, loading, pendingLoad>>
    /\ UNCHANGED engineVars
    /\ UNCHANGED chatVars

NextStore ==
    \/ \E f \in Files : LoadPsd(f)
    \/ LoadPsdParsed
    \/ LoadParseFails
    \/ \E k \in DOMAIN calls : LoadRenderDone(k)
    \/ \E k \in DOMAIN calls : LoadRenderFails(k)
    \/ \E layerId \in ToggleIds : Len(calls) < MaxInFlight /\ ToggleLayerVisibility(layerId)
    \/ ClearPsd
    \/ \E k \in DOMAIN calls : RenderCompletes(k)
    \/ \E k \in DOMAIN calls : RenderFails(k)

SpecStore == InitStore /\ [][NextStore]_vars


NoLists == [hidden |-> {}, shown |-> {}]

\* every layer of ls is effectively visible under ov exactly when it is under
\* its authored flags alone
AsAuthored(ls, ov) ==
    \A id \in RealIds(ls) :
        computeEffectiveVisibility(ls, id, ov) = computeEffectiveVisibility(ls, id, EmptyMap)

\* C36: when loadPsd stores a newly parsed document, visibilityOverrides holds
\* no entry of the document before it, so every layer's effective visibility
\* is what the authored flags give, which is what the first composite,
\* rendered with empty hidden and shown lists, shows.
C36_NoCarriedOverrides ==
    [][LoadPsdParsed =>
          /\ visibilityOverrides' = EmptyMap
          /\ AsAuthored(psd'.layers, visibilityOverrides')]_vars

\* the part of C36 that the code keeps: a document loaded into a fresh or
\* cleared store meets no overrides
C36_FreshLoad ==
    [][(LoadPsdParsed /\ psd = Nil) =>
          /\ visibilityOverrides' = EmptyMap
          /\ AsAuthored(psd'.layers, visibilityOverrides')]_vars

\* two.psd is shown as authored while the override set for layer 20 of
\* one.psd hides its layer 10
C36_StaleOverride ==
    /\ fileName = "two.psd"
    /\ pendingLoad = Nil
    /\ calls = <<>>
    /\ composite = NoLists
    /\ visibilityOverrides = (10 :> FALSE)
    /\ ~computeEffectiveVisibility(psd.layers, 10, visibilityOverrides)
    /\ computeEffectiveVisibility(psd.layers, 10, EmptyMap)

\* C37: a second toggleLayerVisibility of the layer just toggled gives every
\* layer the own and effective visibility it had before the first, and sends
\* the renderer the lists of before the first; with an unknown id or without
\* a document a toggle changes nothing.
C37_ToggleTwice ==
    [][\A layerId \in ToggleIds :
          ToggleLayerVisibility(layerId) =>
              IF psd = Nil \/ layerId \notin RealIds(psd.layers)
              THEN UNCHANGED vars
              ELSE LET ls    == psd.layers
                       again == ToggleOverrides(ls, visibilityOverrides', layerId)
                   IN  /\ OwnOf(ls, visibilityOverrides', layerId)
                              = ~OwnOf(ls, visibilityOverrides, layerId)
                       /\ \A id \in RealIds(ls) :
                              /\ OwnOf(ls, again, id) = OwnOf(ls, visibilityOverrides, id)
                              /\ computeEffectiveVisibility(ls, id, again)
                                     = computeEffectiveVisibility(ls, id,
                                                                  visibilityOverrides)
                       /\ RenderLists(ls, again) = RenderLists(ls, visibilityOverrides)
                       /\ calls'[Len(calls')]
                              = RenderCall(RenderLists(ls, visibilityOverrides'))]_vars

\* the folder 10 of one.psd was hidden and shown again: its override now
\* equals its authored flag and the second render is asked for no change
C37_Witness ==
    /\ fileName = "one.psd"
    /\ pendingLoad = Nil
    /\ visibilityOverrides = (10 :> TRUE)
    /\ composite = [hidden |-> {10, 20}, shown |-> {}]
    /\ Len(calls) = 1
    /\ calls[1] = RenderCall(NoLists)

\* C40: a loadPsd called while another is in progress changes nothing; when a
\* load ends, fulfilled or rejected, the guard is released and loading is
\* false, and whenever no load is in progress the guard is open.
C40_GuardedLoad ==
    /\ [][/\ \A f \in Files :
                (loadingGuard /\ LoadPsd(f)) =>
                    UNCHANGED <<psd, composite, fileName, loading, error,
                                visibilityOverrides, calls, pendingLoad, parsedPsd>>
          /\ (pendingLoad # Nil /\ pendingLoad' = Nil) => ~loadingGuard' /\ ~loading']_vars
    /\ [](loadingGuard <=> pendingLoad # Nil)
    /\ [](loading <=> pendingLoad # Nil)

\* one.psd failed to parse, and two.psd was accepted after it and is stored
C40_Witness ==
    /\ fileName = "two.psd"
    /\ psd # Nil
    /\ pendingLoad = Nil
    /\ ~loading
    /\ ~loadingGuard
    /\ error = NULL
    /\ parsedPsd = ParsedBy("two.psd")
    /\ composite = NoLists


\* C38: sendUserMessage and analyzeCurrentPsd start a request only while none
\* is in flight, sending is true exactly while one is, and every end of a
\* request, fulfilled or rejected, leaves sending false.
C38_OneRequest ==
    /\ [][/\ (SendUserMessage \/ AnalyzeCurrentPsd) => (~sending /\ inflight = Nil)
          /\ (inflight # Nil /\ inflight' = Nil) => ~sending']_vars
    /\ [](sending <=> inflight # Nil)

\* the analysis was answered with a config and is still saving its hints:
\* sending is true, and no second request can start
C38_Witness ==
    /\ sending
    /\ inflight # Nil
    /\ inflight.kind = "saveHints"
    /\ interactionConfig # Nil

\* C39: once clearMessages has set interactionConfig to null, a response that
\* carries no config leaves it null, also the response to a request that was
\* sent before clearMessages.
C39_ClearedStaysCleared ==
    [][\A r \in Responses :
          (/\ interactionConfig = Nil
           /\ parseInteractionConfig(r) = Nil
           /\ ResponseArrives(r)) => interactionConfig' = Nil]_vars

\* the part of C39 that the code keeps: a request sent after clearMessages
\* and answered without a config leaves interactionConfig null
C39_SentAfterClear ==
    [][\A r \in Responses :
          (/\ interactionConfig = Nil
           /\ inflight # Nil /\ inflight.snapshot = Nil
           /\ parseInteractionConfig(r) = Nil
           /\ ResponseArrives(r)) => interactionConfig' = Nil]_vars

=============================================================================
